---- MODULE Spec2Model ----
(***************************************************************************)
(* Verification model of the ClusterShell worker layer of this repository: *)
(* the rsh cohort (Worker/Rsh.py), the S3 fetch cohort (Worker/S3.py, in   *)
(* its lib and chalicelib revisions) and the MQTT publish cohort           *)
(* (Worker/Mqtt.py).                                                       *)
(* Each cohort is one record variable holding the worker object, its       *)
(* clients and the callbacks its event handler has received.  The methods  *)
(* of the source are operators from state record to state record, and the  *)
(* actions apply them.                                                     *)
(***************************************************************************)
EXTENDS Integers, Sequences, FiniteSets, TLC

VARIABLES rsh, s3, mq, cli

vars == <<rsh, s3, mq, cli>>

\* The command-line layer (CLI/Clush.py) when no command is being run.
CliOff == [kind |-> "off"]

\* ------------------------------------------------------------------ bounds

\* Largest number of targets of an rsh cohort.
NumNodes == 3

\* Largest number of targets of a fetch or publish cohort.
NumAcus == 2

\* Largest number of Line Events an rsh cohort reads from its subprocesses.
MaxRshLines == 1

\* ------------------------------------------------------------ rsh cohort

\* Exit codes a remote shell can end with.
RetCodes == {0, 1}

\* Rsh._close: rc = -1 until the subprocess yields an exit code.
RC_UNSET == -1

\* Popen.wait() of a subprocess ended by a signal: minus the signal number.
SIGKILL == 9
SIGTERM == 15

RshNodes == 1..NumNodes

\* Rsh.__init__ / Rcp.__init__: a client before the engine has started it.
RshClient0 ==
  [ registered |-> FALSE,    \* EngineClient.registered
    started    |-> FALSE,
    alive      |-> FALSE,    \* popen.poll() is None
    prc        |-> 0,        \* popen.returncode once not alive
    rbuf       |-> FALSE,    \* self._rbuf holds data without EOL
    closes     |-> 0 ]       \* runs of Rsh._close

\* The state before WorkerRsh.__init__ has run.
RshIdle ==
  [ built       |-> "no",
    eh          |-> FALSE,
    clients     |-> << >>,
    cl          |-> [n \in RshNodes |-> RshClient0],
    close_count |-> 0,
    has_timeout |-> FALSE,
    retcodes    |-> {},      \* pairs <<node, rc>> kept by the task
    timeouts    |-> {},      \* nodes kept by the task as timed out
    events      |-> << >>,   \* Line Events delivered to the handler
    ev_close    |-> 0,
    ev_timeout  |-> 0,
    late        |-> 0,       \* Line Events delivered after ev_close
    stale       |-> 0,       \* Line Events of a node delivered after its outcome
    aborted     |-> FALSE ]

\* NodeSet(nodes): the k first nodes, in NodeSet order.
NodeSeq(k) == [i \in 1..k |-> i]

\* WorkerRsh.__init__: one Rsh client per node for a command, one Rcp client
\* per node for a source, ValueError otherwise.  Rcp.__init__ raises
\* ValueError for a reverse copy whose dest is no directory, before the first
\* client is appended.
WorkerRsh_init(st, k, command, source, rcp_ok, handler) ==
  LET base == [st EXCEPT !.eh = handler, !.close_count = 0, !.has_timeout = FALSE]
  IN  IF command
      THEN [base EXCEPT !.built = "yes", !.clients = NodeSeq(k)]
      ELSE IF source
           THEN IF rcp_ok \/ k = 0
                THEN [base EXCEPT !.built = "yes", !.clients = NodeSeq(k)]
                ELSE [base EXCEPT !.built = "ValueError"]
           ELSE [base EXCEPT !.built = "ValueError"]

\* DistantWorker._on_node_rc: the task records the node's return code.
DistantWorker_on_node_rc(st, node, rc) ==
  [st EXCEPT !.retcodes = @ \cup {<<node, rc>>}]

\* DistantWorker._on_node_timeout: the task records the node as timed out.
DistantWorker_on_node_timeout(st, node) ==
  [st EXCEPT !.timeouts = @ \cup {node}]

\* DistantWorker._on_node_msgline: a Line Event reaches the handler.
DistantWorker_on_node_msgline(st, node, sname) ==
  IF st.eh
  THEN [st EXCEPT !.events = Append(@, <<node, sname>>),
                  !.late = IF st.ev_close > 0 THEN @ + 1 ELSE @,
                  !.stale = IF \/ node \in st.timeouts
                               \/ \E p \in st.retcodes : p[1] = node
                            THEN @ + 1 ELSE @]
  ELSE st

WorkerRsh_on_node_rc(st, node, rc) ==
  LET s1 == DistantWorker_on_node_rc(st, node, rc)
  IN  [s1 EXCEPT !.close_count = @ + 1]

WorkerRsh_on_node_timeout(st, node) ==
  LET s1 == DistantWorker_on_node_timeout(st, node)
  IN  [s1 EXCEPT !.close_count = @ + 1, !.has_timeout = TRUE]

WorkerRsh_check_fini_always(st) ==
  IF st.eh
  THEN [st EXCEPT !.ev_timeout = IF st.has_timeout THEN @ + 1 ELSE @,
                  !.ev_close = @ + 1]
  ELSE st

WorkerRsh_check_fini(st) ==
  IF st.close_count >= Len(st.clients)
  THEN IF st.eh
       THEN [st EXCEPT !.ev_timeout = IF st.has_timeout THEN @ + 1 ELSE @,
                       !.ev_close = @ + 1]
       ELSE st
  ELSE st

\* Worker.iter_retcodes: the pairs (rc, nodes that returned rc).
Worker_iter_retcodes(st) ==
  { <<rc, {n \in RshNodes : <<n, rc>> \in st.retcodes}>> :
      rc \in {p[2] : p \in st.retcodes} }

\* Worker.iter_keys_timeout: the nodes that timed out.
Worker_iter_keys_timeout(st) == st.timeouts

Rsh_close_both(st, node, abort, flush, timeout) ==
  LET c    == st.cl[node]
      s1   == IF flush /\ c.rbuf
              THEN DistantWorker_on_node_msgline(st, node, "stdout")
              ELSE st
      kill == abort /\ c.alive
      prc  == IF kill THEN 0 - SIGKILL ELSE c.prc
      rc   == IF prc >= 0 THEN prc ELSE RC_UNSET
      s2   == [s1 EXCEPT !.cl[node] =
                 [c EXCEPT !.alive = FALSE, !.prc = prc, !.registered = FALSE,
                           !.rbuf = FALSE, !.closes = @ + 1]]
      s3_  == IF rc >= 0 THEN WorkerRsh_on_node_rc(s2, node, rc) ELSE s2
      s4   == IF timeout THEN WorkerRsh_on_node_timeout(s3_, node) ELSE s3_
  IN  WorkerRsh_check_fini(s4)

\* _close with the last Line Event generated after the outcome is handed to
\* the worker and the worker's end test.
Rsh_close_flush_last(st, node, abort, flush, timeout) ==
  LET c    == st.cl[node]
      kill == abort /\ c.alive
      prc  == IF kill THEN 0 - SIGKILL ELSE c.prc
      rc   == IF prc >= 0 THEN prc ELSE RC_UNSET
      s2   == [st EXCEPT !.cl[node] =
                 [c EXCEPT !.alive = FALSE, !.prc = prc, !.registered = FALSE,
                           !.rbuf = FALSE, !.closes = @ + 1]]
      s3_  == IF rc >= 0
              THEN WorkerRsh_on_node_rc(s2, node, rc)
              ELSE IF timeout
                   THEN WorkerRsh_on_node_timeout(s2, node)
                   ELSE s2
      s4   == WorkerRsh_check_fini(s3_)
  IN  IF flush /\ c.rbuf
      THEN DistantWorker_on_node_msgline(s4, node, "stdout")
      ELSE s4

\* Rsh._close(abort, flush, timeout), run by the engine when it removes the
\* client: a last Line Event for unterminated data, the subprocess killed on
\* abort if it still runs and then reaped, the fds closed, the outcome handed
\* to the worker, and the worker's end test.
Rsh_close(st, node, abort, flush, timeout) ==
  LET c    == st.cl[node]
      s1   == IF flush /\ c.rbuf
              THEN DistantWorker_on_node_msgline(st, node, "stdout")
              ELSE st
      kill == abort /\ c.alive
      prc  == IF kill THEN 0 - SIGKILL ELSE c.prc
      rc   == IF prc >= 0 THEN prc ELSE RC_UNSET
      s2   == [s1 EXCEPT !.cl[node] =
                 [c EXCEPT !.alive = FALSE, !.prc = prc, !.registered = FALSE,
                           !.rbuf = FALSE, !.closes = @ + 1]]
      s3_  == IF rc >= 0
              THEN WorkerRsh_on_node_rc(s2, node, rc)
              ELSE IF timeout
                   THEN WorkerRsh_on_node_timeout(s2, node)
                   ELSE s2
  IN  WorkerRsh_check_fini(s3_)

\* EngineClient.abort: the engine removes a registered client with the abort
\* flag; a client it has not registered is left alone.
EngineClient_abort(st, node) ==
  IF st.cl[node].registered
  THEN Rsh_close(st, node, TRUE, FALSE, FALSE)
  ELSE st

RECURSIVE WorkerRsh_abort_from(_, _)
WorkerRsh_abort_from(st, i) ==
  IF i > Len(st.clients)
  THEN st
  ELSE WorkerRsh_abort_from(EngineClient_abort(st, st.clients[i]), i + 1)

\* WorkerRsh.abort: client.abort() for every client, in list order.
WorkerRsh_abort(st) ==
  WorkerRsh_abort_from([st EXCEPT !.aborted = TRUE], 1)

\* Rsh._start: the subprocess is spawned and the client registered.
Rsh_start(st, node) ==
  [st EXCEPT !.cl[node] = [@ EXCEPT !.registered = TRUE, !.started = TRUE,
                                    !.alive = TRUE]]

\* Rsh._handle_read: the complete lines read become Line Events; data
\* without EOL stays in _rbuf.
Rsh_handle_read(st, node, partial) ==
  LET s1 == IF partial THEN st
            ELSE DistantWorker_on_node_msgline(st, node, "stdout")
  IN  [s1 EXCEPT !.cl[node].rbuf = partial]

\* ---- actions of the rsh cohort

RshUnchanged == UNCHANGED <<s3, mq, cli>>

RshDispatch ==
  /\ rsh.built = "no"
  /\ \E k \in 0..NumNodes, command \in BOOLEAN, source \in BOOLEAN,
        rcp_ok \in BOOLEAN, handler \in BOOLEAN :
       rsh' = WorkerRsh_init(rsh, k, command, source, rcp_ok, handler)
  /\ RshUnchanged

RshStart ==
  /\ rsh.built = "yes"
  /\ \E i \in 1..Len(rsh.clients) :
       /\ ~rsh.cl[rsh.clients[i]].started
       /\ rsh' = Rsh_start(rsh, rsh.clients[i])
  /\ RshUnchanged

\* The subprocess writes to its stdout.
RshRead ==
  /\ \E n \in RshNodes, partial \in BOOLEAN :
       /\ rsh.cl[n].registered /\ rsh.cl[n].alive
       /\ Len(rsh.events) < MaxRshLines
       /\ rsh' = Rsh_handle_read(rsh, n, partial)
  /\ RshUnchanged

\* The subprocess exits by itself.
RshProcExit ==
  /\ \E n \in RshNodes, rc \in RetCodes :
       /\ rsh.cl[n].registered /\ rsh.cl[n].alive
       /\ rsh' = [rsh EXCEPT !.cl[n].alive = FALSE, !.cl[n].prc = rc]
  /\ RshUnchanged

\* The subprocess is ended by a signal from outside.
RshProcSignaled ==
  /\ \E n \in RshNodes :
       /\ rsh.cl[n].registered /\ rsh.cl[n].alive
       /\ rsh' = [rsh EXCEPT !.cl[n].alive = FALSE, !.cl[n].prc = 0 - SIGTERM]
  /\ RshUnchanged

\* The engine reads EOF on the streams of an ended subprocess and removes
\* the client.
RshCloseEof ==
  /\ \E n \in RshNodes :
       /\ rsh.cl[n].registered /\ ~rsh.cl[n].alive
       /\ rsh' = Rsh_close(rsh, n, FALSE, TRUE, FALSE)
  /\ RshUnchanged

\* The engine finds the client's deadline passed and removes it with the
\* abort and timeout flags.
RshCloseTimeout ==
  /\ \E n \in RshNodes :
       /\ rsh.cl[n].registered
       /\ rsh' = Rsh_close(rsh, n, TRUE, FALSE, TRUE)
  /\ RshUnchanged

RshAbort ==
  /\ rsh.built = "yes"
  /\ ~rsh.aborted
  /\ rsh' = WorkerRsh_abort(rsh)
  /\ RshUnchanged

RshNext ==
  \/ RshDispatch
  \/ RshStart
  \/ RshRead
  \/ RshProcExit
  \/ RshProcSignaled
  \/ RshCloseEof
  \/ RshCloseTimeout
  \/ RshAbort

\* ---------------------------------------------------------- fetch cohort

\* Names of the targets (ACUs) of fetch and publish cohorts.
AcuName == <<"acu1", "acu2", "acu3", "acu4">>
Acus == {AcuName[i] : i \in 1..NumAcus}

\* S3Worker.__init__: the key substituted when no target has replied.
LOCALHOST == "localhost"
S3Keys == Acus \cup {LOCALHOST}

\* Contents an object of the bucket can have, as its lines.
ObjTexts == { <<"a">>, <<"a", "b">> }

\* The diagnostics the fetch clients synthesize.
MSG_NOREPLY  == <<"No ACUs have replied with requestId">>
MSG_NOTFOUND == <<"Cannot find reponse">>

\* S3Client.__init__: a client before the engine has started it.
S3Client0 ==
  [ state   |-> "none",      \* none, pending, started (registered), closed
    tpc     |-> "none",      \* position of the client's thread
    target  |-> "none",      \* the thread's target
    has_out |-> FALSE,       \* output.json was there when downloaded
    has_err |-> FALSE,       \* error.json was there when downloaded
    text    |-> << >>,       \* the content downloaded
    lookups |-> << >>,       \* download_fileobj calls made
    out_buf |-> << >>,       \* lines in the stdout pipe
    err_buf |-> << >>,       \* lines in the stderr pipe
    out_w   |-> FALSE,       \* stdout_input_pipe is open
    err_w   |-> FALSE,       \* err_input_pipe is open
    out_reg |-> FALSE,       \* stdout stream registered with the engine
    err_reg |-> FALSE,       \* stderr stream registered with the engine
    events  |-> << >>,       \* Line Events of this target, in order
    late    |-> FALSE,       \* a Line Event was delivered after _close
    starts  |-> 0,           \* _on_nodeset_start calls
    closes  |-> 0,           \* runs of _close
    cabort  |-> FALSE,       \* the abort flag _close was called with
    ctimeout |-> FALSE,      \* the timeout flag _close was called with
    reg     |-> 0,           \* the value the thread loaded for its "+= 1"/"-= 2"
    craised |-> "" ]         \* the exception _close raised

S3Idle(rev) ==
  [ rev         |-> rev,     \* "lib" or "chalice" revision of Worker/S3.py
    built       |-> "no",    \* no, yes, or the exception dispatch raised
    requestId   |-> FALSE,   \* self.requestId is not None
    stderr      |-> FALSE,
    app         |-> FALSE,   \* task.info("App")
    listed      |-> FALSE,   \* _get_nodes was called
    dirhandler  |-> FALSE,   \* handler replaced by DirectOutputDirHandler
    clients     |-> << >>,
    u           |-> [k \in S3Keys |-> S3Client0],
    close_count |-> 0,
    has_timeout |-> FALSE,
    retcodes    |-> {},
    timeouts    |-> {},
    ev_close    |-> 0,
    refcnt      |-> 0,       \* engine.evlooprefcnt
    starting    |-> "none",  \* the client whose _start the reactor is inside
    rreg        |-> 0 ]      \* the value the reactor loaded for its "+= 2"

\* ClusterShell.Worker.Exec / Worker, as the clients use them.

\* ExecClient._on_nodeset_start: the start of the target is announced.
ExecClient_on_nodeset_start(st, key) ==
  [st EXCEPT !.u[key].starts = @ + 1]

\* ExecClient._on_nodeset_msgline: a Line Event reaches the handler.
ExecClient_on_nodeset_msgline(st, key, payload, sname) ==
  [st EXCEPT !.u[key].events = Append(@, <<sname, payload>>),
             !.u[key].late = @ \/ st.u[key].state = "closed"]

\* ExecClient._on_nodeset_close: the target's return code is recorded.
ExecClient_on_nodeset_close(st, key, rc) ==
  [st EXCEPT !.retcodes = @ \cup {<<key, rc>>}]

\* ExecClient._on_nodeset_timeout (not called by the clients of src/).
ExecClient_on_nodeset_timeout(st, key) ==
  [st EXCEPT !.timeouts = @ \cup {key}, !.has_timeout = TRUE]

\* ExecWorker._check_fini: one more client closed; ev_close at the last.
ExecWorker_check_fini(st) ==
  LET s1 == [st EXCEPT !.close_count = @ + 1]
  IN  IF s1.close_count >= Len(s1.clients)
      THEN [s1 EXCEPT !.ev_close = @ + 1]
      ELSE s1

\* ExecWorker.__init__: _add_client for every node, in order.
RECURSIVE ExecWorker_add_clients(_, _, _)
ExecWorker_add_clients(st, nodes, i) ==
  IF i > Len(nodes) \/ st.built # "no"
  THEN st
  ELSE LET k == nodes[i]
       IN  ExecWorker_add_clients(
             IF st.requestId
             THEN [st EXCEPT !.clients = Append(@, k),
                             !.u[k].state = "pending"]
             ELSE [st EXCEPT !.built = "ValueError"],
             nodes, i + 1)

\* S3Worker._add_client is the body of the loop above: a client when
\* self.requestId is not None, ValueError otherwise.
S3Worker_add_client(st, nodes) ==
  LET s1 == ExecWorker_add_clients(st, nodes, 1)
  IN  IF s1.built = "no" THEN [s1 EXCEPT !.built = "yes"] ELSE s1

\* S3Worker.__init__(requestId, nodes, ...).  requestId is "none" (None),
\* "list_none" ([None]) or "list_id" ([id]); given is the caller's target
\* list and listing what _get_nodes finds under the identifier.
S3Worker_init(st, requestId, given, listing, stderr, app) ==
  IF st.rev = "lib" /\ requestId = "none"
  THEN [st EXCEPT !.built = "TypeError"]           \* requestId[0] on None
  ELSE
    LET s1 == [st EXCEPT !.requestId = (requestId = "list_id"),
                         !.stderr = stderr, !.app = app]
        s2 == IF Len(given) = 0
              THEN [s1 EXCEPT !.listed = TRUE, !.dirhandler = TRUE]
              ELSE s1
        nodes == IF Len(given) = 0
                 THEN IF Len(listing) = 0 THEN <<LOCALHOST>> ELSE listing
                 ELSE given
    IN  S3Worker_add_client(s2, nodes)

\* S3Client._start.  lib: both pipes are opened, the stdout stream and, with
\* stderr capture, the stderr stream are registered, evlooprefcnt grows by 2
\* and the thread is started.  chalicelib: no pipe; the placeholder's
\* diagnostic is a stderr Line Event issued here.
S3Client_start(st, key) ==
  LET s1 == ExecClient_on_nodeset_start(
              [st EXCEPT !.u[key].state = "started"], key)
  IN  IF st.rev = "lib"
      THEN [s1 EXCEPT !.u[key].out_w = TRUE, !.u[key].err_w = TRUE,
                      !.u[key].err_reg = st.stderr,
                      !.u[key].out_reg = TRUE,
                      !.refcnt = @ + 2,
                      !.u[key].target = IF key = LOCALHOST
                                        THEN "_log_error_msg"
                                        ELSE "_grab_response",
                      !.u[key].tpc = "run"]
      ELSE LET s2 == IF key = LOCALHOST
                     THEN ExecClient_on_nodeset_msgline(
                            s1, key, MSG_NOREPLY, "stderr")
                     ELSE s1
           IN  [s2 EXCEPT !.u[key].target = IF key = LOCALHOST
                                            THEN "_kill_client"
                                            ELSE "_grab_response",
                          !.u[key].tpc = IF key = LOCALHOST
                                         THEN "kill" ELSE "run"]

\* os.write(pipe, text + "\n"): the lines of the text enter the pipe.
PipeWrite(buf, text) == buf \o text

\* S3Client._log_error_msg, its os.write.
S3Client_log_error_msg(st, key, text) ==
  [st EXCEPT !.u[key].err_buf = PipeWrite(@, text), !.u[key].tpc = "wrote"]

\* S3Client._grab_response up to its write (lib) or its Line Event
\* (chalicelib): output.json, else error.json, else the diagnostic.
S3Client_grab_response(st, key, has_out, has_err, text) ==
  LET looked == IF has_out THEN <<"output">> ELSE <<"output", "error">>
      s1 == [st EXCEPT !.u[key].has_out = has_out,
                       !.u[key].has_err = has_err,
                       !.u[key].text = IF has_out \/ has_err THEN text ELSE << >>,
                       !.u[key].lookups = looked]
  IN  IF st.rev = "lib"
      THEN IF has_out
           THEN [s1 EXCEPT !.u[key].out_buf = PipeWrite(@, text),
                           !.u[key].tpc = "wrote"]
           ELSE IF has_err
                THEN S3Client_log_error_msg(s1, key, text)
                ELSE S3Client_log_error_msg(s1, key, MSG_NOTFOUND)
      ELSE LET s2 == IF has_out
                     THEN ExecClient_on_nodeset_msgline(s1, key, text, "stdout")
                     ELSE IF has_err
                          THEN ExecClient_on_nodeset_msgline(
                                 s1, key, text, "stderr")
                          ELSE ExecClient_on_nodeset_msgline(
                                 s1, key, MSG_NOTFOUND, "stderr")
           IN  [s2 EXCEPT !.u[key].tpc = "kill"]

S3Client_close_pipes_stdout_only(st, key) ==
  [st EXCEPT !.u[key].out_w = FALSE, !.u[key].tpc = "closedw"]

\* The two os.close of the write ends (lib).
S3Client_close_pipes(st, key) ==
  [st EXCEPT !.u[key].out_w = FALSE, !.u[key].err_w = FALSE,
             !.u[key].tpc = "closedw"]

\* self._engine.evlooprefcnt -= 2, the thread's last statement (lib).
S3Client_decref(st, key) ==
  [st EXCEPT !.refcnt = @ - 2, !.u[key].tpc = "done"]

\* S3Client._close(abort, timeout): streams cleared, return code 0 reported,
\* the worker's end test.  Neither flag is read.  lib first compares
\* self.thread.name, and self.thread is set by _start only.
S3Client_close(st, key, abort, timeout) ==
  IF st.rev = "lib" /\ st.u[key].tpc = "none"
  THEN [st EXCEPT !.u[key].craised = "AttributeError"]
  ELSE
  LET s1 == [st EXCEPT !.u[key].state = "closed",
                       !.u[key].out_reg = FALSE, !.u[key].err_reg = FALSE,
                       !.u[key].closes = @ + 1,
                       !.u[key].cabort = abort,
                       !.u[key].ctimeout = timeout]
      s2 == ExecClient_on_nodeset_close(s1, key, 0)
  IN  ExecWorker_check_fini(s2)

\* S3Client._kill_client (chalicelib): nothing under the App flag, else the
\* engine removes the client once it is registered.
S3Client_kill_client(st, key) ==
  IF st.app
  THEN [st EXCEPT !.u[key].tpc = "done"]
  ELSE S3Client_close([st EXCEPT !.u[key].tpc = "done"], key, FALSE, FALSE)

\* ExecClient._handle_read / _handle_error: every line read from a
\* registered stream is a Line Event.
RECURSIVE EngineClient_handle_lines(_, _, _, _)
EngineClient_handle_lines(st, key, sname, lines) ==
  IF lines = << >>
  THEN st
  ELSE EngineClient_handle_lines(
         ExecClient_on_nodeset_msgline(st, key, <<Head(lines)>>, sname),
         key, sname, Tail(lines))

Engine_read(st, key, sname) ==
  IF sname = "stdout"
  THEN [EngineClient_handle_lines(st, key, sname, st.u[key].out_buf)
          EXCEPT !.u[key].out_buf = << >>]
  ELSE [EngineClient_handle_lines(st, key, sname, st.u[key].err_buf)
          EXCEPT !.u[key].err_buf = << >>]

\* The engine reads EOF on a stream and drops it.
Engine_eof(st, key, sname) ==
  IF sname = "stdout"
  THEN [st EXCEPT !.u[key].out_reg = FALSE]
  ELSE [st EXCEPT !.u[key].err_reg = FALSE]

\* With the EOF of the client's last stream the engine removes the client,
\* which runs _close.
S3Engine_eof(st, key, sname) ==
  LET s1 == Engine_eof(st, key, sname)
  IN  IF ~s1.u[key].out_reg /\ ~s1.u[key].err_reg
      THEN S3Client_close(s1, key, FALSE, FALSE)
      ELSE s1

\* ---- actions of the fetch cohort

S3Unchanged == UNCHANGED <<rsh, mq, cli>>

\* A target list of the caller: none, the first k ACUs, or "localhost".
S3Given == {[i \in 1..k |-> AcuName[i]] : k \in 0..NumAcus} \cup {<<LOCALHOST>>}

\* What the listing under the identifier yields: the first k ACUs.
S3Listing == {[i \in 1..k |-> AcuName[i]] : k \in 0..NumAcus}

S3Dispatch ==
  /\ s3.built = "no"
  /\ \E requestId \in {"none", "list_none", "list_id"},
        given \in S3Given, listing \in S3Listing,
        stderr \in BOOLEAN, app \in BOOLEAN :
       /\ Len(given) > 0 => Len(listing) = 0
       /\ app => s3.rev = "chalice"
       /\ s3' = S3Worker_init(s3, requestId, given, listing, stderr, app)
  /\ S3Unchanged

S3Start ==
  /\ s3.built = "yes"
  /\ \E i \in 1..Len(s3.clients) :
       /\ s3.u[s3.clients[i]].state = "pending"
       /\ s3' = S3Client_start(s3, s3.clients[i])
  /\ S3Unchanged

\* The thread of a placeholder client (lib) runs _log_error_msg.
S3ThreadPlaceholder ==
  /\ \E k \in S3Keys :
       /\ s3.u[k].tpc = "run" /\ s3.u[k].target = "_log_error_msg"
       /\ s3' = S3Client_log_error_msg(s3, k, MSG_NOREPLY)
  /\ S3Unchanged

\* The thread of a client runs _grab_response against the bucket.
S3ThreadGrab ==
  /\ \E k \in S3Keys, has_out \in BOOLEAN, has_err \in BOOLEAN,
        text \in ObjTexts :
       /\ s3.u[k].tpc = "run" /\ s3.u[k].target = "_grab_response"
       /\ s3' = S3Client_grab_response(s3, k, has_out, has_err, text)
  /\ S3Unchanged

S3ThreadClosePipes ==
  /\ \E k \in S3Keys :
       /\ s3.u[k].tpc = "wrote"
       /\ s3' = S3Client_close_pipes(s3, k)
  /\ S3Unchanged

S3ThreadDecref ==
  /\ \E k \in S3Keys :
       /\ s3.u[k].tpc = "closedw"
       /\ s3' = S3Client_decref(s3, k)
  /\ S3Unchanged

\* The thread reaches _kill_client (chalicelib); it spins until the client
\* is registered.
S3ThreadKill ==
  /\ \E k \in S3Keys :
       /\ s3.u[k].tpc = "kill"
       /\ s3.app \/ s3.u[k].state = "started"
       /\ s3' = S3Client_kill_client(s3, k)
  /\ S3Unchanged

\* The engine finds a registered stream readable.
S3EngineRead ==
  /\ \E k \in S3Keys :
       /\ s3.u[k].state = "started"
       /\ \/ /\ s3.u[k].out_reg /\ s3.u[k].out_buf # << >>
             /\ s3' = Engine_read(s3, k, "stdout")
          \/ /\ s3.u[k].err_reg /\ s3.u[k].err_buf # << >>
             /\ s3' = Engine_read(s3, k, "stderr")
  /\ S3Unchanged

\* The engine reads EOF on a registered stream whose write end is closed.
\* _close joins the thread, so the last stream's EOF waits for its end.
S3EngineEof ==
  /\ \E k \in S3Keys :
       /\ s3.u[k].state = "started"
       /\ \/ /\ s3.u[k].out_reg /\ s3.u[k].out_buf = << >> /\ ~s3.u[k].out_w
             /\ s3.u[k].err_reg \/ s3.u[k].tpc = "done"
             /\ s3' = S3Engine_eof(s3, k, "stdout")
          \/ /\ s3.u[k].err_reg /\ s3.u[k].err_buf = << >> /\ ~s3.u[k].err_w
             /\ s3.u[k].out_reg \/ s3.u[k].tpc = "done"
             /\ s3' = S3Engine_eof(s3, k, "stderr")
  /\ S3Unchanged

\* The engine removes a registered client with the abort flag: on
\* task.abort(), or with the timeout flag when the client's deadline has
\* passed.  lib's _close first joins the thread.
S3CloseForced ==
  /\ \E k \in S3Keys, timeout \in BOOLEAN :
       /\ s3.u[k].state = "started"
       /\ s3.rev = "lib" => s3.u[k].tpc = "done"
       /\ s3' = S3Client_close(s3, k, TRUE, timeout)
  /\ S3Unchanged

S3Next ==
  \/ S3Dispatch
  \/ S3Start
  \/ S3ThreadPlaceholder
  \/ S3ThreadGrab
  \/ S3ThreadClosePipes
  \/ S3ThreadDecref
  \/ S3ThreadKill
  \/ S3EngineRead
  \/ S3EngineEof
  \/ S3CloseForced


\* ----------------------------------------------- claims on the fetch cohort

S3Units == {s3.clients[i] : i \in 1..Len(s3.clients)}

S3StreamEvents(k, sname) ==
  SelectSeq(s3.u[k].events, LAMBDA e : e[1] = sname)

\* The client was closed by the engine on the EOF of its streams or by its
\* own thread, not by a timeout or an abort.
S3ClosedByItself(k) ==
  s3.u[k].state = "closed" /\ ~s3.u[k].cabort /\ ~s3.u[k].ctimeout

\* C4 as stated: a work unit closed with the timeout flag set is reported as
\* timed out and has no return code.
C4_TimeoutReported ==
  \A k \in S3Units :
    s3.u[k].state = "closed" /\ s3.u[k].ctimeout =>
      /\ k \in s3.timeouts
      /\ \A rc \in {0, 1} : <<k, rc>> \notin s3.retcodes

\* C5 as stated: a fetch client that has looked up its objects and closed by
\* itself has issued exactly one Line Event: stdout with the output content
\* if output.json was there, else stderr with the content of error.json if
\* that was there, else the stderr diagnostic; error.json is looked up only
\* after output.json was not found.
C5_FetchFallback ==
  \A k \in S3Units :
    s3.u[k].lookups # << >> /\ S3ClosedByItself(k) =>
      /\ s3.u[k].events =
           IF s3.u[k].has_out THEN << <<"stdout", s3.u[k].text>> >>
           ELSE IF s3.u[k].has_err THEN << <<"stderr", s3.u[k].text>> >>
           ELSE << <<"stderr", MSG_NOTFOUND>> >>
      /\ s3.u[k].lookups =
           IF s3.u[k].has_out THEN <<"output">> ELSE <<"output", "error">>

\* The cohort was dispatched without targets and the listing was empty.
S3Placeholder ==
  s3.built = "yes" /\ s3.listed /\ s3.clients = <<LOCALHOST>>

\* C6 as stated: a fetch cohort dispatched without targets whose listing is
\* empty has exactly one unit, and once that unit has closed by itself it has
\* made no download, has issued exactly one Line Event, the stderr
\* diagnostic, and ev_close has been called once.
C6_PlaceholderDiagnostic ==
  S3Placeholder /\ S3ClosedByItself(LOCALHOST) =>
    /\ s3.u[LOCALHOST].lookups = << >>
    /\ s3.u[LOCALHOST].events = << <<"stderr", MSG_NOREPLY>> >>
    /\ s3.ev_close = 1

\* C8 as stated: when the download of output.json raised, a client that has
\* closed by itself has issued exactly one stderr Line Event, and issued it
\* before it closed, whatever the stderr flag of the cohort.
C8_FailureIsStderrEvent ==
  \A k \in S3Units :
    /\ s3.u[k].lookups # << >> /\ ~s3.u[k].has_out
    /\ S3ClosedByItself(k)
    => /\ Len(S3StreamEvents(k, "stderr")) = 1
       /\ ~s3.u[k].late

\* C10 as stated: a dispatch without correlation identifier has raised
\* ValueError, and no client was created or started and no callback made.
C10_MalformedDispatchRaises ==
  s3.built # "no" /\ ~s3.requestId =>
    /\ s3.built = "ValueError"
    /\ s3.clients = << >>
    /\ \A k \in S3Keys : s3.u[k].state = "none" /\ s3.u[k].starts = 0
    /\ s3.ev_close = 0


\* -------------------------------------------------------- publish cohort

\* What a node name is to WorkerMqttPub.getOpals: "ok" has the five
\* dot-separated components with the acu and org prefixes, "error" has an
\* entry in the errors map, "short" lacks components (the unpacking of
\* node.split(".") raises ValueError), "noorg" has an organization component
\* without the org prefix (org.split("org")[1] raises IndexError).
NodeKinds == {"ok", "error", "short", "noorg"}

\* "ERROR: " + errors[node], the sentinel of a failed topic resolution.
ErrorSentinel(node) == <<"ERROR: ", node>>

\* OPAL_TEMPLATE.format(...), and the topic MqttClient.__init__ makes of it.
Opal(node) == <<"opal", node>>
Topic(opal) == IF opal[1] = "ERROR: " THEN opal ELSE <<"topic", opal[2], "command">>

\* repr(e) of an exception e.
PyRepr(e) == <<"repr", e>>

\* The confirmation line of a publish.
MsgPublished(rid) == <<"MQTT message with requestID", rid, "published successfully!">>

MqttClient0 ==
  [ state    |-> "none",
    tpc      |-> "none",
    target   |-> "none",
    topic    |-> << >>,
    publishes |-> << >>,     \* client.publish calls: <<topic, requestId>>
    raised   |-> FALSE,      \* client.publish raised
    wrote_out |-> << >>,     \* texts written to stdout_input_pipe
    wrote_err |-> << >>,     \* texts written to err_input_pipe
    out_buf  |-> << >>,
    err_buf  |-> << >>,
    out_w    |-> FALSE,
    err_w    |-> FALSE,
    out_reg  |-> FALSE,
    err_reg  |-> FALSE,
    events   |-> << >>,
    late     |-> FALSE,
    starts   |-> 0,
    closes   |-> 0,
    cabort   |-> FALSE,
    ctimeout |-> FALSE,
    craised  |-> "" ]        \* the exception _close raised

MqIdle ==
  [ built       |-> "no",
    command     |-> FALSE,   \* the command argument is not None
    stderr      |-> FALSE,
    requestId   |-> "",      \* self.msg["requestId"]
    rid_arg     |-> << >>,   \* the requestId argument: << >> is None
    kinds       |-> << >>,   \* the kind of each node dispatched
    opals       |-> [k \in Acus |-> << >>],   \* self.acu_opal_map
    clients     |-> << >>,
    u           |-> [k \in Acus |-> MqttClient0],
    close_count |-> 0,
    has_timeout |-> FALSE,
    retcodes    |-> {},
    timeouts    |-> {},
    ev_close    |-> 0,
    refcnt      |-> 0 ]

\* WorkerMqttPub.getOpals: the topic prefix of every node, or the sentinel
\* of the node's recorded error; a node name it cannot take apart raises.
RECURSIVE WorkerMqttPub_getOpals(_, _, _)
WorkerMqttPub_getOpals(st, kinds, i) ==
  IF i > Len(kinds) \/ st.built # "no"
  THEN st
  ELSE LET node == AcuName[i]
       IN  WorkerMqttPub_getOpals(
             CASE kinds[i] = "error" ->
                    [st EXCEPT !.opals[node] = ErrorSentinel(node)]
               [] kinds[i] = "short" -> [st EXCEPT !.built = "ValueError"]
               [] kinds[i] = "noorg" -> [st EXCEPT !.built = "IndexError"]
               [] OTHER -> [st EXCEPT !.opals[node] = Opal(node)],
             kinds, i + 1)

\* MqttClient.__init__.
MqttClient_init(st, node, opal) ==
  [st EXCEPT !.clients = Append(@, node),
             !.u[node].state = "pending",
             !.u[node].topic = Topic(opal)]

\* WorkerMqttPub._add_client, for every node (ExecWorker.__init__): a
\* client when self.command is not None, ValueError otherwise.
RECURSIVE WorkerMqttPub_add_client(_, _, _)
WorkerMqttPub_add_client(st, n, i) ==
  IF i > n \/ st.built # "no"
  THEN st
  ELSE LET node == AcuName[i]
       IN  WorkerMqttPub_add_client(
             IF st.command
             THEN MqttClient_init(st, node, st.opals[node])
             ELSE [st EXCEPT !.built = "ValueError"],
             n, i + 1)

\* WorkerMqttPub.__init__(nodes, handler, timeout, errors=, requestId=,
\* command=, stderr=): kinds gives the nodes; requestId is the caller's
\* list, or << >> for None; self.msg["requestId"] is str(uuid.uuid4()),
\* drawn once, for None and requestId[0] otherwise.
WorkerMqttPub_init(st, kinds, command, requestId, stderr) ==
  LET s0 == [st EXCEPT !.kinds = kinds, !.command = command,
                       !.stderr = stderr]
      s1 == WorkerMqttPub_getOpals(s0, kinds, 1)
      s2 == IF s1.built # "no" THEN s1
            ELSE WorkerMqttPub_add_client(
                   [s1 EXCEPT !.rid_arg = requestId,
                              !.requestId = IF requestId = << >>
                                            THEN "uuid"
                                            ELSE requestId[1]],
                   Len(kinds), 1)
  IN  IF s2.built = "no" THEN [s2 EXCEPT !.built = "yes"] ELSE s2

\* MqttClient._log_error_msg, its os.write.
MqttClient_log_error_msg(st, key, text) ==
  [st EXCEPT !.u[key].err_buf = PipeWrite(@, <<text>>),
             !.u[key].wrote_err = Append(@, text),
             !.u[key].tpc = "wrote"]

\* MqttClient._start: the start announced, the pipes opened and registered,
\* evlooprefcnt raised by 2, the thread started on _log_error_msg with
\* repr(Exception(topic)) for a sentinel topic and on _send_message
\* otherwise, and the start announced again.
MqttClient_start(st, key) ==
  LET s1 == ExecClient_on_nodeset_start(
              [st EXCEPT !.u[key].state = "started"], key)
      s2 == [s1 EXCEPT !.u[key].out_w = TRUE, !.u[key].err_w = TRUE,
                       !.u[key].err_reg = st.stderr,
                       !.u[key].out_reg = TRUE,
                       !.refcnt = @ + 2,
                       !.u[key].target =
                          IF st.u[key].topic[1] = "ERROR: "
                          THEN "_log_error_msg" ELSE "_send_message",
                       !.u[key].tpc = "run"]
  IN  ExecClient_on_nodeset_start(s2, key)

\* The thread of a client with a sentinel topic: _log_error_msg(repr(e)).
MqttClient_thread_error(st, key) ==
  MqttClient_log_error_msg(st, key, PyRepr(st.u[key].topic))

MqttClient_send_message_retry(st, key, raises) ==
  LET s1 == [st EXCEPT !.u[key].publishes =
                          Append(@, <<st.u[key].topic, st.requestId>>),
                       !.u[key].raised = raises]
      s2 == [s1 EXCEPT !.u[key].publishes =
                          Append(@, <<st.u[key].topic, st.requestId>>)]
  IN  IF raises
      THEN MqttClient_log_error_msg(s2, key, PyRepr("publish failed"))
      ELSE [s1 EXCEPT !.u[key].out_buf =
                         PipeWrite(@, <<MsgPublished(st.requestId)>>),
                      !.u[key].wrote_out = Append(@, MsgPublished(st.requestId)),
                      !.u[key].tpc = "wrote"]

\* MqttClient._send_message up to its write: the publish and the
\* confirmation line, or _log_error_msg(repr(e)) when publish raised.
MqttClient_send_message(st, key, raises) ==
  LET s1 == [st EXCEPT !.u[key].publishes =
                          Append(@, <<st.u[key].topic, st.requestId>>),
                       !.u[key].raised = raises]
  IN  IF raises
      THEN MqttClient_log_error_msg(s1, key, PyRepr("publish failed"))
      ELSE [s1 EXCEPT !.u[key].out_buf =
                         PipeWrite(@, <<MsgPublished(st.requestId)>>),
                      !.u[key].wrote_out = Append(@, MsgPublished(st.requestId)),
                      !.u[key].tpc = "wrote"]

\* The two os.close of the write ends.
MqttClient_close_pipes(st, key) ==
  [st EXCEPT !.u[key].out_w = FALSE, !.u[key].err_w = FALSE,
             !.u[key].tpc = "closedw"]

\* self._engine.evlooprefcnt -= 2, the thread's last statement.
MqttClient_decref(st, key) ==
  [st EXCEPT !.refcnt = @ - 2, !.u[key].tpc = "done"]

\* MqttClient._close(abort, timeout): the thread joined, streams cleared,
\* return code 0 reported, the worker's end test.  Neither flag is read.
\* self.thread is set by _start only.
MqttClient_close(st, key, abort, timeout) ==
  IF st.u[key].tpc = "none"
  THEN [st EXCEPT !.u[key].craised = "AttributeError"]
  ELSE
  LET s1 == [st EXCEPT !.u[key].state = "closed",
                       !.u[key].out_reg = FALSE, !.u[key].err_reg = FALSE,
                       !.u[key].closes = @ + 1,
                       !.u[key].cabort = abort,
                       !.u[key].ctimeout = timeout]
      s2 == ExecClient_on_nodeset_close(s1, key, 0)
  IN  ExecWorker_check_fini(s2)

MqEngine_eof(st, key, sname) ==
  LET s1 == Engine_eof(st, key, sname)
  IN  IF ~s1.u[key].out_reg /\ ~s1.u[key].err_reg
      THEN MqttClient_close(s1, key, FALSE, FALSE)
      ELSE s1

\* ---- actions of the publish cohort

MqUnchanged == UNCHANGED <<rsh, s3, cli>>

MqKindSeqs == UNION {[1..k -> NodeKinds] : k \in 0..NumAcus}

MqDispatch ==
  /\ mq.built = "no"
  /\ \E kinds \in MqKindSeqs, command \in BOOLEAN,
        requestId \in {<< >>, <<"rid">>}, stderr \in BOOLEAN :
       mq' = WorkerMqttPub_init(mq, kinds, command, requestId, stderr)
  /\ MqUnchanged

MqStart ==
  /\ mq.built = "yes"
  /\ \E i \in 1..Len(mq.clients) :
       /\ mq.u[mq.clients[i]].state = "pending"
       /\ mq' = MqttClient_start(mq, mq.clients[i])
  /\ MqUnchanged

MqThreadError ==
  /\ \E k \in Acus :
       /\ mq.u[k].tpc = "run" /\ mq.u[k].target = "_log_error_msg"
       /\ mq' = MqttClient_thread_error(mq, k)
  /\ MqUnchanged

MqThreadSend ==
  /\ \E k \in Acus, raises \in BOOLEAN :
       /\ mq.u[k].tpc = "run" /\ mq.u[k].target = "_send_message"
       /\ mq' = MqttClient_send_message(mq, k, raises)
  /\ MqUnchanged

MqThreadClosePipes ==
  /\ \E k \in Acus :
       /\ mq.u[k].tpc = "wrote"
       /\ mq' = MqttClient_close_pipes(mq, k)
  /\ MqUnchanged

MqThreadDecref ==
  /\ \E k \in Acus :
       /\ mq.u[k].tpc = "closedw"
       /\ mq' = MqttClient_decref(mq, k)
  /\ MqUnchanged

MqEngineRead ==
  /\ \E k \in Acus :
       /\ mq.u[k].state = "started"
       /\ \/ /\ mq.u[k].out_reg /\ mq.u[k].out_buf # << >>
             /\ mq' = Engine_read(mq, k, "stdout")
          \/ /\ mq.u[k].err_reg /\ mq.u[k].err_buf # << >>
             /\ mq' = Engine_read(mq, k, "stderr")
  /\ MqUnchanged

MqEngineEof ==
  /\ \E k \in Acus :
       /\ mq.u[k].state = "started"
       /\ \/ /\ mq.u[k].out_reg /\ mq.u[k].out_buf = << >> /\ ~mq.u[k].out_w
             /\ mq.u[k].err_reg \/ mq.u[k].tpc = "done"
             /\ mq' = MqEngine_eof(mq, k, "stdout")
          \/ /\ mq.u[k].err_reg /\ mq.u[k].err_buf = << >> /\ ~mq.u[k].err_w
             /\ mq.u[k].out_reg \/ mq.u[k].tpc = "done"
             /\ mq' = MqEngine_eof(mq, k, "stderr")
  /\ MqUnchanged

MqCloseForced ==
  /\ \E k \in Acus, timeout \in BOOLEAN :
       /\ mq.u[k].state = "started"
       /\ mq.u[k].tpc = "done"
       /\ mq' = MqttClient_close(mq, k, TRUE, timeout)
  /\ MqUnchanged

MqNext ==
  \/ MqDispatch
  \/ MqStart
  \/ MqThreadError
  \/ MqThreadSend
  \/ MqThreadClosePipes
  \/ MqThreadDecref
  \/ MqEngineRead
  \/ MqEngineEof
  \/ MqCloseForced

InitPub ==
  /\ mq = MqIdle
  /\ rsh = RshIdle
  /\ s3 = S3Idle("lib")
  /\ cli = CliOff

SpecPub == InitPub /\ [][MqNext]_vars

\* --------------------------------------------- claims on the publish cohort

MqUnits == {mq.clients[i] : i \in 1..Len(mq.clients)}

MqSentinel(k) == mq.u[k].topic # << >> /\ mq.u[k].topic[1] = "ERROR: "

\* C7 as stated: a publish client whose topic is a sentinel never calls
\* publish, writes nothing to the stdout pipe, and the text it writes to the
\* stderr pipe is the sentinel itself.
C7_SentinelVerbatim ==
  \A k \in MqUnits :
    MqSentinel(k) =>
      /\ mq.u[k].publishes = << >>
      /\ mq.u[k].wrote_out = << >>
      /\ mq.u[k].tpc \in {"wrote", "closedw", "done"} =>
           mq.u[k].wrote_err = <<mq.u[k].topic>>

\* C9 as stated: a publish cohort with a command is constructed whatever
\* its nodes are, with one client per node; a node whose topic cannot be
\* resolved never publishes and, once closed by itself, has issued one
\* stderr Line Event; every other node publishes once.
C9_ResolutionFailureIsLocal ==
  mq.built # "no" /\ mq.command =>
    /\ mq.built = "yes"
    /\ Len(mq.clients) = Len(mq.kinds)
    /\ \A i \in 1..Len(mq.clients) :
         LET k == mq.clients[i]
             closed == mq.u[k].state = "closed" /\ ~mq.u[k].cabort
         IN  IF mq.kinds[i] = "ok"
             THEN closed => Len(mq.u[k].publishes) = 1
             ELSE /\ mq.u[k].publishes = << >>
                  /\ closed => /\ Len(mq.u[k].events) = 1
                               /\ mq.u[k].events[1][1] = "stderr"

InitFetch ==
  /\ \E rev \in {"lib", "chalice"} : s3 = S3Idle(rev)
  /\ rsh = RshIdle
  /\ mq = MqIdle
  /\ cli = CliOff

SpecFetch == InitFetch /\ [][S3Next]_vars

InitRsh ==
  /\ rsh = RshIdle
  /\ s3 = S3Idle("lib")
  /\ mq = MqIdle
  /\ cli = CliOff

SpecRsh == InitRsh /\ [][RshNext]_vars

\* ------------------------------------------------- claims on the rsh cohort

RshUnits == Len(rsh.clients)

RshAllClosed ==
  \A i \in 1..RshUnits : rsh.cl[rsh.clients[i]].closes = 1

\* C1: in an rsh cohort of n >= 1 units with a handler, _close_count never
\* decreases and never exceeds n, ev_close has been called once if
\* _close_count equals n and not at all otherwise, and the step that calls
\* ev_close is the step that takes _close_count from below n to n.
C1_TerminalExactlyOnce ==
  /\ [](rsh.built = "yes" /\ rsh.eh /\ RshUnits >= 1 =>
          /\ rsh.close_count <= RshUnits
          /\ rsh.ev_close = IF rsh.close_count = RshUnits THEN 1 ELSE 0)
  /\ [][ /\ rsh'.close_count >= rsh.close_count
         /\ rsh'.ev_close # rsh.ev_close =>
              /\ rsh'.ev_close = rsh.ev_close + 1
              /\ rsh.close_count < RshUnits
              /\ rsh'.close_count = RshUnits ]_vars

\* C1 witness: a cohort of several units, one of them timed out, has closed
\* them all and called ev_close once.
C1_Witness ==
  /\ rsh.eh /\ RshUnits >= 2 /\ rsh.ev_close = 1
  /\ rsh.timeouts # {} /\ rsh.retcodes # {}

RshGroupsOf(n) == {g \in Worker_iter_retcodes(rsh) : n \in g[2]}

\* C2 as stated: once ev_close has been called, every target is in exactly
\* one (return code, group) pair of iter_retcodes.
C2_RetcodeGroupsPartition ==
  rsh.ev_close >= 1 =>
    \A i \in 1..RshUnits : Cardinality(RshGroupsOf(rsh.clients[i])) = 1

\* C2 as amended: once ev_close has been called, every target is either in
\* exactly one (return code, group) pair of iter_retcodes or in
\* iter_keys_timeout, and never in both.
C2_OutcomesPartition ==
  rsh.ev_close >= 1 =>
    \A i \in 1..RshUnits :
      LET n == rsh.clients[i]
      IN  Cardinality(RshGroupsOf(n))
            + (IF n \in Worker_iter_keys_timeout(rsh) THEN 1 ELSE 0) = 1

\* C2 witness: a terminated cohort with two return-code groups and a timed
\* out target.
C2_Witness ==
  /\ rsh.ev_close = 1
  /\ Cardinality(Worker_iter_retcodes(rsh)) = 2
  /\ Worker_iter_keys_timeout(rsh) # {}

\* C3 as stated: after abort(), once every unit has run its close routine,
\* each ran it once, every completion is counted and ev_close has been
\* called once.
C3_AbortReachesTerminal ==
  rsh.aborted /\ rsh.eh /\ RshUnits >= 1 /\ RshAllClosed =>
    /\ rsh.close_count = RshUnits
    /\ rsh.ev_close = 1


\* ---------------------------------------------- output handlers (Clush.py)

\* Largest number of targets of a command run through a gathering handler,
\* and largest number of Line Events these targets emit together.
NumTargets == 3

MaxOutLines == 3

\* The same for a command run through the Live-Gathered handler.
NumLiveTargets == 2

MaxLiveLines == 4

\* The same for a command run through the direct-to-files handler.
NumDirTargets == 2

MaxDirLines == 2

\* Node names in natural order.
TargetName == <<"a", "b", "c", "d", "e">>

Targets == {TargetName[i] : i \in 1..NumTargets}

\* The first k targets.
TargetSet(k) == {TargetName[i] : i \in 1..k}

\* Payloads of stdout Line Events, and the payload of a stderr Line Event.
Payloads == {"OK", "FAIL"}

ErrPayload == "E"

\* Position of a node name in natural order.
NodeIdx(n) ==
  IF n = LOCALHOST THEN Len(TargetName) + 1
  ELSE CHOOSE i \in 1..Len(TargetName) : TargetName[i] = n

\* The keys a worker of the command-line layer can have.
OutKeys == Targets \cup {LOCALHOST}

\* The first node of a non-empty NodeSet.
NodeMin(S) == CHOOSE n \in S : \A m \in S : NodeIdx(n) <= NodeIdx(m)

SeqRange(q) == {q[i] : i \in 1..Len(q)}

\* The targets of a set in natural order.
RECURSIVE NaturalOrder(_)
NaturalOrder(S) ==
  IF S = {} THEN << >>
  ELSE <<NodeMin(S)>> \o NaturalOrder(S \ {NodeMin(S)})

\* Content of a file left in an output directory by an earlier run.
StaleFile == <<"old">>

\* The state of one command run by run_command or fetch_output_from_s3: the
\* display options, the handler and the worker's bookkeeping (its message
\* tree and its return codes).  The progress timer is not created
\* (display.verbosity is VERB_QUIET and display.progress is off).
OutIdle(gather, line_mode, outdir, errdir, stderr, maxk, maxl) ==
  [ kind      |-> "out",
    stderr    |-> stderr,      \* task default "stderr": not options.gatherall
    maxk      |-> maxk,        \* largest number of targets of the command
    maxl      |-> maxl,        \* largest number of Line Events of the run
    gather    |-> gather,      \* display.gather
    line_mode |-> line_mode,   \* display.line_mode
    outdir    |-> outdir,      \* display.outdir is set
    errdir    |-> errdir,      \* display.errdir is set
    built     |-> "no",        \* "no", "yes" or the exception raised
    handler   |-> "none",      \* class of the handler
    ns        |-> {},          \* the ns argument of the handler
    wnodes    |-> {},          \* the keys of the worker's clients
    running   |-> FALSE,       \* task default USER_running
    maxrc     |-> FALSE,       \* config.maxrc
    exit      |-> -1,          \* status given to clush_exit, -1 before
    buf       |-> [n \in OutKeys |-> << >>],   \* worker's stdout MsgTree
    rc        |-> [n \in OutKeys |-> RC_UNSET],   \* worker's return codes
    rckeys    |-> << >>,       \* the return codes, in the order first set
    touts     |-> {},          \* nodes that timed out
    nlines    |-> 0,           \* Line Events emitted so far
    display   |-> << >>,       \* gathered output on the Display, in order
    printed   |-> [n \in OutKeys |-> 0],   \* lines printed at once, by node
    raised    |-> "no",        \* exception raised by a handler callback
    closed    |-> FALSE,       \* ev_close has been called
    lnodes    |-> {},          \* LiveGatherOutputHandler._nodes
    nodecnt   |-> << >>,       \* LiveGatherOutputHandler._nodecnt
    mtreeq    |-> << >>,       \* LiveGatherOutputHandler._mtreeq
    offload   |-> 0,           \* LiveGatherOutputHandler._offload
    outfiles  |-> {},          \* keys of DirectOutputDirHandler._outfiles
    errfiles  |-> {},          \* keys of DirectOutputDirHandler._errfiles
    outfs     |-> [n \in Targets |-> StaleFile],   \* files of display.outdir
    errfs     |-> [n \in Targets |-> StaleFile] ]  \* files of display.errdir

\* Worker.iter_retcodes: one (rc, nodes) pair per return code, the return
\* codes in the order they were first set.  The nodes of a return code are
\* kept in a set, whose iteration order is not defined: ord is the order in
\* which the nodes of the worker come out of such a set.
Out_iter_retcodes(st, ord) ==
  [i \in 1..Len(st.rckeys) |->
     <<st.rckeys[i], SelectSeq(ord, LAMBDA n : st.rc[n] = st.rckeys[i])>>]

\* sorted(worker.iter_retcodes()): the pairs in ascending return code.
RECURSIVE SortedByRc(_)
SortedByRc(S) ==
  IF S = {} THEN << >>
  ELSE LET m == CHOOSE x \in S : \A y \in S : x[1] <= y[1]
       IN  <<m>> \o SortedByRc(S \ {m})

\* Worker.iter_buffers(match_keys): one (buffer, nodes) pair per distinct
\* buffer of the message tree among the given nodes; a node without output
\* has no buffer.
Out_iter_buffers(st, nodes) ==
  { <<b, {n \in nodes : st.buf[n] = b}>> :
      b \in {st.buf[n] : n \in nodes} \ {<< >>} }

\* sorted(..., key=bufnodeset_cmpkey): the groups by their first node.
RECURSIVE SortedByNodeset(_)
SortedByNodeset(G) ==
  IF G = {} THEN << >>
  ELSE LET g == CHOOSE x \in G :
                  \A y \in G : NodeIdx(NodeMin(x[2])) <= NodeIdx(NodeMin(y[2]))
       IN  <<g>> \o SortedByNodeset(G \ {g})

\* update_prompt without its set_default.
OutputHandler_update_prompt_keep(st) == st

\* OutputHandler.update_prompt.
OutputHandler_update_prompt(st) == [st EXCEPT !.running = FALSE]

\* GatherOutputHandler._close_common: the return codes that are not 0, then
\* the nodes that timed out.
GatherOutputHandler_close_common(st, ord) ==
  LET rcs  == Out_iter_retcodes(st, ord)
      bad  == SelectSeq(rcs, LAMBDA p : p[1] # 0)
      exit == [i \in 1..Len(bad) |-> <<"exit", SeqRange(bad[i][2]), bad[i][1]>>]
      tout == IF st.touts # {} THEN << <<"timeout", st.touts>> >> ELSE << >>
  IN  [st EXCEPT !.display = @ \o exit \o tout]

GatherOutputHandler_print_group_each(st, nodelist) ==
  LET ns == NaturalOrder({n \in SeqRange(nodelist) : st.buf[n] # << >>})
  IN  [i \in 1..Len(ns) |-> <<"gather", {ns[i]}, st.buf[ns[i]]>>]

\* The body of the loop without ns_remain.difference_update.
GatherOutputHandler_print_group_no_update(st, nodelist) ==
  LET nodes == SeqRange(nodelist)
      gs    == SortedByNodeset(Out_iter_buffers(st, nodes))
      out   == [i \in 1..Len(gs) |-> <<"gather", gs[i][2], gs[i][1]>>]
  IN  out \o (IF nodes # {} THEN << <<"finalize", nodes>> >> ELSE << >>)

\* The body of the loop of GatherOutputHandler.ev_close for one return code.
GatherOutputHandler_print_group(st, nodelist) ==
  LET nodes  == SeqRange(nodelist)
      gs     == SortedByNodeset(Out_iter_buffers(st, nodes))
      out    == [i \in 1..Len(gs) |-> <<"gather", gs[i][2], gs[i][1]>>]
      remain == nodes \ UNION {gs[i][2] : i \in 1..Len(gs)}
  IN  out \o (IF remain # {} THEN << <<"finalize", remain>> >> ELSE << >>)

RECURSIVE GatherOutputHandler_print_groups(_, _)
GatherOutputHandler_print_groups(st, groups) ==
  IF groups = << >> THEN << >>
  ELSE GatherOutputHandler_print_group(st, Head(groups)[2])
         \o GatherOutputHandler_print_groups(st, Tail(groups))

\* ev_close over the return codes in the order they were first set.
GatherOutputHandler_ev_close_unsorted(st, ord) ==
  LET groups == Out_iter_retcodes(st, ord)
      s1     == [st EXCEPT !.display =
                   @ \o GatherOutputHandler_print_groups(st, groups)]
  IN  OutputHandler_update_prompt(GatherOutputHandler_close_common(s1, ord))

\* GatherOutputHandler.ev_close.
GatherOutputHandler_ev_close(st, ord) ==
  LET groups == SortedByRc(SeqRange(Out_iter_retcodes(st, ord)))
      s1     == [st EXCEPT !.display =
                   @ \o GatherOutputHandler_print_groups(st, groups)]
  IN  OutputHandler_update_prompt(GatherOutputHandler_close_common(s1, ord))

\* GatherOutputHandler.ev_read: stdout is left to the worker's buffers,
\* stderr is printed at once.
GatherOutputHandler_ev_read(st, node, sname, msg) ==
  IF sname = "stderr" THEN [st EXCEPT !.printed[node] = @ + 1]
  ELSE st

\* The inner loops of SortedOutputHandler.ev_close for one return code: the
\* nodes in the order of the group, each with its own buffer.
RECURSIVE SortedOutputHandler_print_nodes(_, _)
SortedOutputHandler_print_nodes(st, nodelist) ==
  IF nodelist = << >> THEN << >>
  ELSE LET node == Head(nodelist)
       IN  (IF st.buf[node] # << >>
            THEN << <<"gather", {node}, st.buf[node]>> >> ELSE << >>)
           \o SortedOutputHandler_print_nodes(st, Tail(nodelist))

RECURSIVE SortedOutputHandler_print_groups(_, _)
SortedOutputHandler_print_groups(st, groups) ==
  IF groups = << >> THEN << >>
  ELSE SortedOutputHandler_print_nodes(st, Head(groups)[2])
         \o SortedOutputHandler_print_groups(st, Tail(groups))

\* SortedOutputHandler.ev_close.
SortedOutputHandler_ev_close(st, ord) ==
  LET groups == SortedByRc(SeqRange(Out_iter_retcodes(st, ord)))
      s1     == [st EXCEPT !.display =
                   @ \o SortedOutputHandler_print_groups(st, groups)]
  IN  OutputHandler_update_prompt(GatherOutputHandler_close_common(s1, ord))

\* DirectOutputHandler.ev_read.
DirectOutputHandler_ev_read(st, node, sname, msg) ==
  [st EXCEPT !.printed[node] = @ + 1]

\* DirectOutputHandler.ev_hup.
DirectOutputHandler_ev_hup(st, node, rc) ==
  IF rc > 0 THEN [st EXCEPT !.display = Append(@, <<"exit", {node}, rc>>)]
  ELSE st

\* DirectOutputHandler.ev_close.
DirectOutputHandler_ev_close(st, timedout) ==
  OutputHandler_update_prompt(
    IF timedout
    THEN [st EXCEPT !.display = Append(@, <<"timeout", st.touts>>)]
    ELSE st)


\* LiveGatherOutputHandler.__init__.  The nodes argument is << >> for None
\* and <<ns>> for a NodeSet; only None is rejected.
LiveGatherOutputHandler_init(st, nodes) ==
  IF nodes = << >> THEN [st EXCEPT !.built = "AssertionError"]
  ELSE [st EXCEPT !.handler = "live", !.ns = nodes[1], !.lnodes = nodes[1],
                  !.nodecnt = [n \in nodes[1] |-> 0],
                  !.mtreeq = << >>, !.offload = 0]

\* An entry of the queue is a MsgTree, kept as the set of the
\* <<node, line, cnt>> triples added to it: cnt is the number of the line in
\* the node's stream, which orders the lines of one node.  len(mtree) is the
\* number of its keys.
MsgTree_keys(mtree) == {p[1] : p \in mtree}

RECURSIVE MsgTree_lines(_)
MsgTree_lines(ps) ==
  IF ps = {} THEN << >>
  ELSE LET p == CHOOSE x \in ps : \A y \in ps : x[3] <= y[3]
       IN  <<p[2]>> \o MsgTree_lines(ps \ {p})

\* The message of a key: the lines added for it, in the order added.
MsgTree_message(mtree, node) ==
  MsgTree_lines({p \in mtree : p[1] = node})

\* MsgTree.walk of one queue entry, sorted by bufnodeset_cmpkey and printed:
\* one print_gather per distinct message.
LiveGather_print_mtree(mtree) ==
  LET keys == MsgTree_keys(mtree)
      gs   == SortedByNodeset(
                { <<m, {n \in keys : MsgTree_message(mtree, n) = m}>> :
                    m \in {MsgTree_message(mtree, n) : n \in keys} })
  IN  [i \in 1..Len(gs) |-> <<"gather", gs[i][2], gs[i][1]>>]

\* LiveGatherOutputHandler._live_line.
RECURSIVE LiveGatherOutputHandler_live_line(_)
LiveGatherOutputHandler_live_line(st) ==
  IF /\ st.mtreeq # << >>
     /\ Cardinality(MsgTree_keys(Head(st.mtreeq))) = Cardinality(st.lnodes)
  THEN LiveGatherOutputHandler_live_line(
         [st EXCEPT !.mtreeq  = Tail(@),
                    !.offload = @ + 1,
                    !.display = @ \o LiveGather_print_mtree(Head(st.mtreeq))])
  ELSE st

\* list[j] of Python on a list of length len: the position from 1, a
\* negative j counting from the end, 0 for an IndexError.
PyIndex(len, j) ==
  IF 0 <= j /\ j < len THEN j + 1
  ELSE IF j < 0 /\ len + j >= 0 THEN len + j + 1
  ELSE 0

\* ev_read with every line added to the head of the queue.
LiveGatherOutputHandler_ev_read_head(st, node, sname, msg) ==
  IF sname # "stdout" THEN GatherOutputHandler_ev_read(st, node, sname, msg)
  ELSE IF node \notin DOMAIN st.nodecnt THEN [st EXCEPT !.raised = "KeyError"]
  ELSE
    LET cnt == st.nodecnt[node] + 1
        q   == IF Len(st.mtreeq) < cnt THEN Append(st.mtreeq, {})
               ELSE st.mtreeq
    IN  LiveGatherOutputHandler_live_line(
          [st EXCEPT !.nodecnt[node] = cnt,
                     !.mtreeq = [q EXCEPT ![1] = @ \cup {<<node, msg, cnt>>}]])

\* LiveGatherOutputHandler.ev_read.
LiveGatherOutputHandler_ev_read(st, node, sname, msg) ==
  IF sname # "stdout" THEN GatherOutputHandler_ev_read(st, node, sname, msg)
  ELSE IF node \notin DOMAIN st.nodecnt THEN [st EXCEPT !.raised = "KeyError"]
  ELSE
    LET cnt == st.nodecnt[node] + 1
        q   == IF Len(st.mtreeq) < cnt THEN Append(st.mtreeq, {})
               ELSE st.mtreeq
        i   == PyIndex(Len(q), cnt - st.offload - 1)
    IN  IF i = 0
        THEN [st EXCEPT !.nodecnt[node] = cnt, !.mtreeq = q,
                        !.raised = "IndexError"]
        ELSE LiveGatherOutputHandler_live_line(
               [st EXCEPT !.nodecnt[node] = cnt,
                          !.mtreeq = [q EXCEPT ![i] = @ \cup {<<node, msg, cnt>>}]])

\* LiveGatherOutputHandler.ev_hup.
LiveGatherOutputHandler_ev_hup(st, node, rc) ==
  IF st.mtreeq # << >> /\ node \notin MsgTree_keys(Head(st.mtreeq))
  THEN IF node \notin st.lnodes THEN [st EXCEPT !.raised = "KeyError"]
       ELSE LiveGatherOutputHandler_live_line(
              [st EXCEPT !.lnodes = @ \ {node}])
  ELSE st

RECURSIVE LiveGather_print_queue(_)
LiveGather_print_queue(q) ==
  IF q = << >> THEN << >>
  ELSE LiveGather_print_mtree(Head(q)) \o LiveGather_print_queue(Tail(q))

\* LiveGatherOutputHandler.ev_close.
LiveGatherOutputHandler_ev_close(st, ord) ==
  LET s1 == [st EXCEPT !.display = @ \o LiveGather_print_queue(st.mtreeq)]
  IN  OutputHandler_update_prompt(GatherOutputHandler_close_common(s1, ord))

\* DirectOutputDirHandler.__init__: the files of the configured directories
\* are wiped for the nodes of ns.
DirectOutputDirHandler_init(st, ns) ==
  [st EXCEPT !.handler  = "dir", !.ns = ns,
             !.outfiles = IF st.outdir THEN ns ELSE {},
             !.errfiles = IF st.errdir THEN ns ELSE {},
             !.outfs    = [n \in Targets |->
                             IF st.outdir /\ n \in ns THEN << >> ELSE @[n]],
             !.errfs    = [n \in Targets |->
                             IF st.errdir /\ n \in ns THEN << >> ELSE @[n]]]

\* DirectOutputDirHandler.ev_read.
DirectOutputDirHandler_ev_read(st, node, sname, msg) ==
  LET s1 == DirectOutputHandler_ev_read(st, node, sname, msg)
  IN  IF sname = "stdout" /\ st.outdir
      THEN IF node \notin st.outfiles THEN [s1 EXCEPT !.raised = "KeyError"]
           ELSE [s1 EXCEPT !.outfs[node] = Append(@, msg)]
      ELSE IF sname = "stderr" /\ st.errdir
      THEN IF node \notin st.errfiles THEN [s1 EXCEPT !.raised = "KeyError"]
           ELSE [s1 EXCEPT !.errfs[node] = Append(@, msg)]
      ELSE s1


\* The handler chosen by run_command and fetch_output_from_s3 for a target
\* set ns that is not None.
run_command_handler(st, ns) ==
  IF st.gather \/ st.line_mode
  THEN IF st.gather /\ st.line_mode THEN LiveGatherOutputHandler_init(st, <<ns>>)
       ELSE IF st.line_mode THEN [st EXCEPT !.handler = "sorted"]
       ELSE [st EXCEPT !.handler = "gather"]
  ELSE IF st.outdir \/ st.errdir THEN DirectOutputDirHandler_init(st, ns)
  ELSE [st EXCEPT !.handler = "direct"]

\* main: the target set may be empty only with a request id; the command is
\* then run by run_command or fetch_output_from_s3.  The keys of a command
\* worker are the targets; those of a fetch worker without targets are the
\* ones it lists (S3Worker._get_nodes), or the placeholder.
main_dispatch(st, requestId, ns, listed) ==
  IF ns = {} /\ ~requestId THEN [st EXCEPT !.built = "SystemExit"]
  ELSE LET s1 == run_command_handler([st EXCEPT !.running = TRUE], ns)
       IN  IF s1.built # "no" THEN s1
           ELSE [s1 EXCEPT !.built  = "yes",
                           !.wnodes = IF ns # {} THEN ns
                                      ELSE IF listed = {} THEN {LOCALHOST}
                                      ELSE listed]

\* The callbacks of the handler, by its class.
Handler_ev_read(st, node, sname, msg) ==
  CASE st.handler = "live"   -> LiveGatherOutputHandler_ev_read(st, node, sname, msg)
    [] st.handler = "dir"    -> DirectOutputDirHandler_ev_read(st, node, sname, msg)
    [] st.handler = "direct" -> DirectOutputHandler_ev_read(st, node, sname, msg)
    [] OTHER                 -> GatherOutputHandler_ev_read(st, node, sname, msg)

Handler_ev_hup(st, node, rc) ==
  CASE st.handler = "live"   -> LiveGatherOutputHandler_ev_hup(st, node, rc)
    [] st.handler \in {"dir", "direct"} -> DirectOutputHandler_ev_hup(st, node, rc)
    [] OTHER                 -> st

Handler_ev_close(st, ord) ==
  LET s1 == CASE st.handler = "live"   -> LiveGatherOutputHandler_ev_close(st, ord)
              [] st.handler = "gather" -> GatherOutputHandler_ev_close(st, ord)
              [] st.handler = "sorted" -> SortedOutputHandler_ev_close(st, ord)
              [] OTHER -> DirectOutputHandler_ev_close(st, st.touts # {})
  IN  [s1 EXCEPT !.closed = TRUE]

\* The nodes of the worker that have neither a return code nor timed out.
OutRunning(st) ==
  {n \in st.wnodes : st.rc[n] = RC_UNSET} \ st.touts

\* Worker._check_fini: ev_close once every client has closed.
Out_check_fini(st, ord) ==
  IF st.raised = "no" /\ OutRunning(st) = {} THEN Handler_ev_close(st, ord)
  ELSE st

\* Worker._on_node_msgline: the line goes to the message tree (stdout) and
\* to the handler.
Out_on_node_msgline(st, node, sname, msg) ==
  Handler_ev_read(
    [st EXCEPT !.nlines   = @ + 1,
               !.buf[node] = IF sname = "stdout" THEN Append(@, msg) ELSE @],
    node, sname, msg)

\* Worker._on_node_close: the return code is recorded, then ev_hup.
Out_on_node_close(st, node, rc, ord) ==
  Out_check_fini(
    Handler_ev_hup(
      [st EXCEPT !.rc[node] = rc,
                 !.rckeys   = IF rc \in SeqRange(@) THEN @ ELSE Append(@, rc)],
      node, rc),
    ord)

\* Worker._on_node_timeout.
Out_on_node_timeout(st, node, ord) ==
  Out_check_fini([st EXCEPT !.touts = @ \cup {node}], ord)

main_exit_status_max_only(st, maxrc) ==
  LET codes == SeqRange(st.rckeys)
  IN  IF maxrc /\ codes # {}
      THEN CHOOSE m \in codes : \A c \in codes : c <= m
      ELSE 0

\* main, after the run: the exit status.  task.max_retcode() is None when
\* no return code was set, and sys.exit(None) exits with 0.
main_exit_status(st, maxrc) ==
  LET codes  == SeqRange(st.rckeys)
      max_rc == IF codes = {} THEN 0
                ELSE CHOOSE m \in codes : \A c \in codes : c <= m
  IN  IF maxrc
      THEN IF Cardinality(st.touts) > 0 THEN 255 ELSE max_rc
      ELSE 0

\* The orders in which the nodes can come out of the worker's sets.  Only
\* the Sorted handler iterates over such a set.
OutOrders(st) ==
  IF st.handler = "sorted"
  THEN {q \in [1..Cardinality(st.wnodes) -> st.wnodes] :
          \A i, j \in DOMAIN q : i # j => q[i] # q[j]}
  ELSE {NaturalOrder(st.wnodes)}

OutUnchanged == UNCHANGED <<rsh, s3, mq>>

OutDispatch ==
  /\ cli.built = "no"
  /\ \E requestId \in BOOLEAN, k \in 0..cli.maxk, l \in 0..cli.maxk :
       /\ k > 0 => l = 0
       /\ cli' = main_dispatch(cli, requestId, TargetSet(k), TargetSet(l))
  /\ OutUnchanged

OutRead ==
  /\ cli.built = "yes" /\ cli.raised = "no"
  /\ cli.nlines < cli.maxl
  /\ \E node \in OutRunning(cli) :
       \/ /\ node # LOCALHOST
          /\ \E msg \in Payloads :
               cli' = Out_on_node_msgline(cli, node, "stdout", msg)
       \/ /\ cli.stderr
          /\ cli' = Out_on_node_msgline(cli, node, "stderr", ErrPayload)
  /\ OutUnchanged

OutHup ==
  /\ cli.built = "yes" /\ cli.raised = "no"
  /\ \E node \in OutRunning(cli), rc \in RetCodes, ord \in OutOrders(cli) :
       cli' = Out_on_node_close(cli, node, rc, ord)
  /\ OutUnchanged

OutTimeout ==
  /\ cli.built = "yes" /\ cli.raised = "no"
  /\ \E node \in OutRunning(cli), ord \in OutOrders(cli) :
       cli' = Out_on_node_timeout(cli, node, ord)
  /\ OutUnchanged

OutExit ==
  /\ cli.built = "yes" /\ cli.closed /\ cli.exit = -1
  /\ \E maxrc \in BOOLEAN :
       cli' = [cli EXCEPT !.maxrc = maxrc,
                          !.exit  = main_exit_status(cli, maxrc)]
  /\ OutUnchanged

OutNext == OutDispatch \/ OutRead \/ OutHup \/ OutTimeout

OutExitNext == OutNext \/ OutExit

InitOut(gather, line_mode, outdirs, stderrs, maxk, maxl) ==
  /\ \E outdir \in outdirs, errdir \in outdirs, stderr \in stderrs :
       cli = OutIdle(gather, line_mode, outdir, errdir, stderr, maxk, maxl)
  /\ rsh = RshIdle
  /\ s3 = S3Idle("lib")
  /\ mq = MqIdle

\* clush -B: gathered output, stderr merged into stdout.
SpecGather ==
  InitOut(TRUE, FALSE, {FALSE}, {FALSE}, NumTargets, MaxOutLines)
    /\ [][OutNext]_vars

\* clush -L.
SpecSorted ==
  InitOut(FALSE, TRUE, {FALSE}, {TRUE}, NumTargets, MaxOutLines)
    /\ [][OutNext]_vars

\* clush -bL.
SpecLive ==
  InitOut(TRUE, TRUE, {FALSE}, {TRUE}, NumLiveTargets, MaxLiveLines)
    /\ [][OutNext]_vars

\* clush with or without --outdir and --errdir.
SpecDir ==
  InitOut(FALSE, FALSE, BOOLEAN, {TRUE}, NumDirTargets, MaxDirLines)
    /\ [][OutNext]_vars

\* clush with direct output, up to the exit of the process.
SpecExit ==
  InitOut(FALSE, FALSE, {FALSE}, BOOLEAN, NumDirTargets, MaxDirLines)
    /\ [][OutExitNext]_vars

\* ------------------------------------------ claims on the output handlers

\* The print_gather calls made on the display, in order.
OutGathered == SelectSeq(cli.display, LAMBDA e : e[1] = "gather")

\* The nodes of the worker whose return code is rc.
OutNodesOfRc(rc) == {n \in cli.wnodes : cli.rc[n] = rc}

OutCodes == SeqRange(cli.rckeys)

\* C11 as stated: once the Gathered handler has run its terminal callback,
\* every distinct payload buffered by the targets has been rendered exactly
\* once, with the set of all the targets that produced it, whatever the
\* return codes of the targets (no target timed out).
C11_OncePerPayload ==
  cli.kind = "out" /\ cli.handler = "gather" /\ cli.closed /\ cli.touts = {} =>
    \A b \in {cli.buf[n] : n \in cli.wnodes} \ {<< >>} :
      LET hits == SelectSeq(OutGathered, LAMBDA e : e[3] = b)
      IN  /\ Len(hits) = 1
          /\ hits[1][2] = {n \in cli.wnodes : cli.buf[n] = b}

\* C11 as amended: once the Gathered handler has run its terminal callback,
\* for every return code, every distinct payload buffered by the targets of
\* that return code has been rendered exactly once, with the set of all the
\* targets of that return code that produced it, and nothing else has been
\* rendered (the buffers of the targets that timed out are not).
C11_OncePerPayloadAndRc ==
  cli.kind = "out" /\ cli.handler = "gather" /\ cli.closed =>
    LET expected ==
          { <<"gather", {n \in OutNodesOfRc(rc) : cli.buf[n] = b}, b>> :
              rc \in OutCodes,
              b \in {cli.buf[n] : n \in cli.wnodes} \ {<< >>} }
        real == {e \in expected : e[2] # {}}
    IN  /\ SeqRange(OutGathered) = real
        /\ Len(OutGathered) = Cardinality(real)

\* C11 witness: a, b and c have closed with the same return code, a and b
\* with the payload OK and c with FAIL, and the two groups were rendered.
C11_Witness ==
  /\ cli.kind = "out" /\ cli.handler = "gather" /\ cli.closed
  /\ cli.wnodes = {"a", "b", "c"}
  /\ cli.buf["a"] = <<"OK">> /\ cli.buf["b"] = <<"OK">>
  /\ cli.buf["c"] = <<"FAIL">>
  /\ OutGathered = << <<"gather", {"a", "b"}, <<"OK">> >>,
                      <<"gather", {"c"}, <<"FAIL">> >> >>

RECURSIVE C16_Expected(_)
C16_Expected(codes) ==
  IF codes = {} THEN << >>
  ELSE LET rc == CHOOSE c \in codes : \A d \in codes : c <= d
           ns == NaturalOrder({n \in OutNodesOfRc(rc) : cli.buf[n] # << >>})
       IN  [i \in 1..Len(ns) |-> <<"gather", {ns[i]}, cli.buf[ns[i]]>>]
             \o C16_Expected(codes \ {rc})

\* C16 as stated: once the Sorted handler has run its terminal callback, it
\* has rendered the buffer of every target that has output and a return
\* code, one rendering per target, the return codes in ascending order and
\* the targets of one return code in natural order.
C16_SortedOrder ==
  cli.kind = "out" /\ cli.handler = "sorted" /\ cli.closed =>
    OutGathered = C16_Expected(OutCodes)


\* The targets of the worker that have not disconnected: ev_hup has not been
\* called for them.
OutConnected == {n \in cli.wnodes : cli.rc[n] = RC_UNSET}

\* C12 as stated: while a command runs under the Live-Gathered handler with
\* the targets it was given, no line index stays queued once every target
\* that has not disconnected has contributed to it.
C12_NoStall ==
  /\ cli.kind = "out" /\ cli.handler = "live" /\ cli.built = "yes"
  /\ cli.ns = cli.wnodes /\ cli.raised = "no" /\ ~cli.closed
  /\ cli.mtreeq # << >>
  => \E n \in OutConnected : n \notin {p[1] : p \in Head(cli.mtreeq)}

\* C13 as stated: a Live-Gathered handler that has been constructed was
\* given a target set that is not empty.
C13_LiveTargetsNotEmpty ==
  cli.kind = "out" /\ cli.handler = "live" => cli.ns # {}

\* C17 as stated: under the Direct-to-files handler, the file of a target in
\* a configured directory holds the payloads of that target's Line Events on
\* that stream, in order, and the files of a directory that is not
\* configured are left as they were.
C17_FilesHoldLines ==
  cli.kind = "out" /\ cli.handler = "dir" =>
    \A t \in cli.wnodes \ {LOCALHOST} :
      /\ cli.outfs[t] = IF cli.outdir THEN cli.buf[t] ELSE StaleFile
      /\ cli.errdir => Len(cli.errfs[t]) = cli.printed[t] - Len(cli.buf[t])
      /\ ~cli.errdir => cli.errfs[t] = StaleFile

\* C19: the status given to clush_exit after a completed run is, with
\* maxrc, 255 if a target timed out and else the largest return code of the
\* targets, and 0 without maxrc.
C19_ExitStatus ==
  cli.kind = "out" /\ cli.exit # -1 =>
    cli.exit =
      IF ~cli.maxrc THEN 0
      ELSE IF \E n \in cli.wnodes : n \in cli.touts THEN 255
      ELSE CHOOSE m \in RetCodes :
             /\ \E n \in cli.wnodes : cli.rc[n] = m
             /\ \A n \in cli.wnodes : cli.rc[n] <= m

\* C19 witness: with maxrc, one target has exited with 1 and another has
\* timed out, and the exit status is 255.
C19_Witness ==
  /\ cli.kind = "out" /\ cli.maxrc /\ cli.exit = 255
  /\ \E n \in cli.wnodes : cli.rc[n] = 1
  /\ cli.touts # {}


\* ------------------------------------------------ copy (run_copy, run_rcopy)

\* Largest number of sources of one copy.
MaxSources == 3

\* The targets of the copy.
CopyTargets == {"a", "b"}

\* display.verbosity.
Verbosities == {"quiet", "std", "verb"}

\* The outcome of a target in one transfer: a return code, or timed out.
TIMEDOUT == 255

CopyOutcomes == [CopyTargets -> RetCodes \cup {TIMEDOUT}]

\* The state of one copy: the task default USER_copies, the workers of the
\* transfers, the progress timer of the handler and what the handler did.
CopyIdle ==
  [ kind          |-> "copy",
    built         |-> "no",     \* "no", "yes" or "SystemExit"
    reverse       |-> FALSE,    \* CopyOutputHandler.reverse
    verbosity     |-> "quiet",  \* display.verbosity
    nsources      |-> 0,        \* len(sources)
    copies        |-> 0,        \* task default USER_copies
    workers       |-> << >>,    \* "scheduled", "running" or "closed"
    outcome       |-> << >>,    \* outcome of the targets of a closed worker
    running       |-> FALSE,    \* task default USER_running
    runtimer      |-> "none",   \* OutputHandler._runtimer: none, set, finalized
    callbacks     |-> 0,        \* ev_close calls received
    fin_calls     |-> 0,        \* _runtimer_finalize calls
    direct_closes |-> 0,        \* DirectOutputHandler.ev_close calls
    vprinted      |-> 0,        \* "source -> nodes:dest" lines displayed
    touts         |-> {},       \* timed-out nodes of the worker being closed
    display       |-> << >>,    \* timeout messages displayed
    exit          |-> -1 ]      \* status given to clush_exit, -1 before

\* run_copy and run_rcopy: n sources, of which source number missing (0 for
\* none) does not exist; for a reverse copy dest_ok tells that dest is an
\* existing directory.
run_copy(st, n, missing, reverse, dest_ok, verbosity) ==
  LET s1 == [st EXCEPT !.running = TRUE, !.copies = n, !.nsources = n,
                       !.reverse = reverse, !.verbosity = verbosity]
      s2 == [s1 EXCEPT !.runtimer =
                         IF verbosity \in {"std", "verb"} THEN "set" ELSE @]
  IN  IF reverse /\ ~dest_ok
      THEN [s1 EXCEPT !.built = "SystemExit", !.exit = 1]
      ELSE IF ~reverse /\ missing > 0
      THEN [s2 EXCEPT !.built   = "SystemExit", !.exit = 1,
                      !.workers = [i \in 1..(missing - 1) |-> "scheduled"],
                      !.outcome = [i \in 1..(missing - 1) |-> << >>]]
      ELSE [s2 EXCEPT !.built   = "yes",
                      !.workers = [i \in 1..n |-> "running"],
                      !.outcome = [i \in 1..n |-> << >>]]

\* OutputHandler._runtimer_finalize.
OutputHandler_runtimer_finalize(st) ==
  [st EXCEPT !.fin_calls = @ + 1,
             !.runtimer  = IF @ = "set" THEN "finalized" ELSE @]

CopyOutputHandler_ev_close_each(st, w) ==
  LET o  == st.outcome[w]
      s1 == IF (\E n \in CopyTargets : o[n] = 0) /\ st.verbosity = "verb"
            THEN [st EXCEPT !.vprinted = @ + 1] ELSE st
      s2 == [s1 EXCEPT !.copies = @ - 1]
      sf == OutputHandler_runtimer_finalize(s2)
      to == {n \in CopyTargets : o[n] = TIMEDOUT}
  IN  [DirectOutputHandler_ev_close([sf EXCEPT !.touts = to], to # {})
         EXCEPT !.direct_closes = @ + 1]

\* CopyOutputHandler.ev_close, called for worker number w.
CopyOutputHandler_ev_close(st, w) ==
  LET o  == st.outcome[w]
      s1 == IF (\E n \in CopyTargets : o[n] = 0) /\ st.verbosity = "verb"
            THEN [st EXCEPT !.vprinted = @ + 1] ELSE st
      s2 == [s1 EXCEPT !.copies = @ - 1]
      to == {n \in CopyTargets : o[n] = TIMEDOUT}
  IN  IF s2.copies = 0
      THEN LET sf == OutputHandler_runtimer_finalize(s2)
           IN  [DirectOutputHandler_ev_close([sf EXCEPT !.touts = to], to # {})
                  EXCEPT !.direct_closes = @ + 1]
      ELSE s2

\* Worker._check_fini of worker number w: its targets have the outcomes o
\* and ev_close is called.
Copy_check_fini(st, w, o) ==
  CopyOutputHandler_ev_close(
    [st EXCEPT !.workers[w] = "closed", !.outcome[w] = o,
               !.callbacks  = @ + 1],
    w)

CopyDispatch ==
  /\ cli.built = "no"
  /\ \E n \in 1..MaxSources, missing \in 0..MaxSources,
        reverse \in BOOLEAN, dest_ok \in BOOLEAN, verbosity \in Verbosities :
       /\ missing <= n
       /\ reverse => missing = 0
       /\ ~reverse => dest_ok
       /\ cli' = run_copy(cli, n, missing, reverse, dest_ok, verbosity)
  /\ OutUnchanged

CopyWorkerClose ==
  /\ cli.built = "yes"
  /\ \E w \in 1..Len(cli.workers), o \in CopyOutcomes :
       /\ cli.workers[w] = "running"
       /\ cli' = Copy_check_fini(cli, w, o)
  /\ OutUnchanged

CopyNext == CopyDispatch \/ CopyWorkerClose

InitCopy ==
  /\ cli = CopyIdle
  /\ rsh = RshIdle
  /\ s3 = S3Idle("lib")
  /\ mq = MqIdle

SpecCopy == InitCopy /\ [][CopyNext]_vars

\* C18: once a copy has issued its n >= 1 transfers, USER_copies is n minus
\* the number of terminal callbacks received and is never negative, and
\* _runtimer_finalize and DirectOutputHandler.ev_close have each been called
\* once if all n callbacks were received and not at all before.
C18_CopyCounter ==
  cli.kind = "copy" /\ cli.built = "yes" =>
    /\ Len(cli.workers) = cli.nsources /\ cli.nsources >= 1
    /\ cli.copies = cli.nsources - cli.callbacks
    /\ cli.copies >= 0
    /\ cli.fin_calls = (IF cli.callbacks = cli.nsources THEN 1 ELSE 0)
    /\ cli.direct_closes = cli.fin_calls

\* C18 witness: a copy of three sources has received its three terminal
\* callbacks and has finalized once.
C18_Witness ==
  /\ cli.kind = "copy" /\ cli.built = "yes"
  /\ cli.nsources = 3 /\ cli.callbacks = 3
  /\ cli.fin_calls = 1 /\ cli.direct_closes = 1 /\ cli.copies = 0


\* ------------------------------------------------ progress timer (RunTimer)

\* Largest number of clients of the task, of timer ticks and of bytes
\* written that are followed.
MaxClients == 2

MaxTicks == 3

MaxBytes == 2

\* Largest number of calls of _runtimer_finalize that are followed.
MaxFinalize == 2

\* The RunTimer of a handler, with the number of clients the engine holds.
\* ticks, renders, h_cnt and h_written record what happened: the ticks and
\* the renders so far, the count shown by the last render (-1 before the
\* first one and after a forced redisplay) and whether bytes were written
\* since the previous tick.
TimerIdle(total) ==
  [ kind          |-> "timer",
    total         |-> total,    \* RunTimer.total
    clients       |-> total,    \* len(task._engine.clients())
    cnt_last      |-> -1,       \* RunTimer.cnt_last
    bytes_written |-> 0,        \* RunTimer.bytes_written
    wholelen      |-> 0,        \* RunTimer.wholelen
    started       |-> FALSE,    \* RunTimer.started
    attached      |-> TRUE,     \* OutputHandler._runtimer is set
    finals        |-> 0,        \* lines written by finalize
    fcalls        |-> 0,        \* calls of _runtimer_finalize
    ticks         |-> 0,
    renders       |-> 0,
    h_cnt         |-> -1,
    h_written     |-> FALSE ]

\* Length of the line "prog: done/total" written by update.
TimerLineLen == 1

RunTimer_update_on_change(st) ==
  LET cnt == st.clients
  IN  IF cnt # st.cnt_last
      THEN [st EXCEPT !.cnt_last = cnt, !.wholelen = TimerLineLen,
                      !.started = TRUE, !.renders = @ + 1]
      ELSE st

\* RunTimer.update (no gateways).
RunTimer_update(st) ==
  LET cnt == st.clients
  IN  IF st.bytes_written > 0 \/ cnt # st.cnt_last
      THEN [st EXCEPT !.cnt_last = cnt, !.wholelen = TimerLineLen,
                      !.started = TRUE, !.renders = @ + 1]
      ELSE st

\* RunTimer.ev_timer.
RunTimer_ev_timer(st) == RunTimer_update(st)

\* RunTimer.set_dirty.
RunTimer_set_dirty(st) == [st EXCEPT !.cnt_last = -1]

\* RunTimer.erase_line.
RunTimer_erase_line(st) == [st EXCEPT !.wholelen = 0]

\* OutputHandler.ev_written.
OutputHandler_ev_written(st, size) ==
  IF st.attached
  THEN [st EXCEPT !.bytes_written = @ + size]
  ELSE st

RunTimer_finalize_always(st) ==
  [RunTimer_erase_line(st) EXCEPT !.finals = @ + 1]

\* RunTimer.finalize.
RunTimer_finalize(st) ==
  IF ~st.started THEN st
  ELSE [RunTimer_erase_line(st) EXCEPT !.finals = @ + 1]

\* OutputHandler._runtimer_finalize on the handler of this timer: finalize,
\* the timer is invalidated (the engine fires it no more), and forgotten.
Timer_runtimer_finalize(st) ==
  IF st.attached THEN [RunTimer_finalize(st) EXCEPT !.attached = FALSE]
  ELSE st

TimerTick ==
  /\ cli.attached /\ cli.ticks < MaxTicks
  /\ LET s1 == RunTimer_ev_timer(cli)
     IN  cli' = [s1 EXCEPT !.ticks     = @ + 1,
                           !.h_written = FALSE,
                           !.h_cnt     = IF s1.renders # cli.renders
                                         THEN cli.clients ELSE @]
  /\ OutUnchanged

TimerClientClosed ==
  /\ cli.attached /\ cli.clients > 0
  /\ cli' = [cli EXCEPT !.clients = @ - 1]
  /\ OutUnchanged

TimerWritten ==
  /\ cli.attached /\ cli.bytes_written < MaxBytes
  /\ cli' = [OutputHandler_ev_written(cli, 1) EXCEPT !.h_written = TRUE]
  /\ OutUnchanged

\* A stderr line under the gathering handlers: _runtimer_clean, the line,
\* _runtimer_set_dirty.
TimerLinePrinted ==
  /\ cli.attached /\ cli.cnt_last # -1
  /\ cli' = [RunTimer_set_dirty(RunTimer_erase_line(cli)) EXCEPT !.h_cnt = -1]
  /\ OutUnchanged

\* ev_close of a worker of the handler calls _runtimer_finalize.
TimerFinalize ==
  /\ cli.clients = 0 /\ cli.fcalls < MaxFinalize
  /\ cli' = [Timer_runtimer_finalize(cli) EXCEPT !.fcalls = @ + 1]
  /\ OutUnchanged

TimerNext ==
  \/ TimerTick
  \/ TimerClientClosed
  \/ TimerWritten
  \/ TimerLinePrinted
  \/ TimerFinalize

InitTimer ==
  /\ \E total \in 1..MaxClients : cli = TimerIdle(total)
  /\ rsh = RshIdle
  /\ s3 = S3Idle("lib")
  /\ mq = MqIdle

SpecTimer == InitTimer /\ [][TimerNext]_vars

\* A step is a timer tick, and that tick renders.
TimerTicks == cli.kind = "timer" /\ cli'.ticks = cli.ticks + 1

TimerRenders == cli'.renders = cli.renders + 1

\* C20 as stated: a timer tick renders if and only if the count of clients
\* differs from the count shown by the last render (or a redisplay was
\* forced) or bytes were written since the previous tick.
C20_RenderIffChanged ==
  [][TimerTicks =>
       (TimerRenders <=> (cli.clients # cli.h_cnt \/ cli.h_written))]_vars

\* C20 as amended: a timer tick renders if and only if the count of clients
\* differs from the count shown by the last render (or a redisplay was
\* forced) or bytes have been written at any time since the timer was
\* created.
C20_RenderIffChangedOrEverWritten ==
  [][TimerTicks =>
       (TimerRenders <=> (cli.clients # cli.h_cnt \/ cli.bytes_written > 0))]_vars

\* C20 witness: no byte was written, and the second of two ticks did not
\* render.
C20_Witness ==
  /\ cli.kind = "timer" /\ cli.bytes_written = 0
  /\ cli.ticks = 2 /\ cli.renders = 1


\* A step is a call of _runtimer_finalize.
TimerFinalizes == cli.kind = "timer" /\ cli'.fcalls = cli.fcalls + 1

\* Nothing was written to the terminal by the step.
TimerQuiet == cli'.renders = cli.renders /\ cli'.finals = cli.finals

\* C21 as stated: the finalization of an attached meter writes the
\* definitive line once, whether or not a tick rendered before, and
\* detaches the meter; with the meter detached no step renders, and a
\* further finalization changes nothing.
C21_FinalizeOnce ==
  [][/\ (TimerFinalizes /\ cli.attached) =>
          /\ cli'.finals = cli.finals + 1
          /\ ~cli'.attached
     /\ (cli.kind = "timer" /\ ~cli.attached) =>
          /\ TimerQuiet
          /\ ~cli'.attached]_vars

\* C21 as amended: the finalization of an attached meter writes the
\* definitive line once if a tick rendered before, and nothing if none did;
\* either way it detaches the meter; with the meter detached no step
\* renders, and a further finalization changes nothing.
C21_FinalizeOnceIfStarted ==
  [][/\ (TimerFinalizes /\ cli.attached) =>
          /\ cli'.finals = cli.finals + (IF cli.renders > 0 THEN 1 ELSE 0)
          /\ cli'.renders = cli.renders
          /\ ~cli'.attached
     /\ (cli.kind = "timer" /\ ~cli.attached) =>
          /\ TimerQuiet
          /\ ~cli'.attached]_vars

\* C21 witness: the meter rendered on a tick and was finalized twice; the
\* definitive line was written once.
C21_Witness ==
  /\ cli.kind = "timer" /\ cli.renders > 0
  /\ cli.fcalls = 2 /\ cli.finals = 1 /\ ~cli.attached


\* ------------------------------------- threads of the fetch cohort, by step
\* The transport threads and the reactor share close_count and evlooprefcnt
\* without a lock.  "x += n" is a load, an addition and a store, and another
\* thread can run between the load and the store.

\* S3Client._start up to the load of "self._engine.evlooprefcnt += 2".
S3Client_start_load(st, key) ==
  [st EXCEPT !.starting = key, !.rreg = st.refcnt]

\* The store of "evlooprefcnt += 2" and the rest of S3Client._start.
S3Client_start_store(st, key) ==
  [S3Client_start(st, key) EXCEPT !.refcnt = st.rreg + 2, !.starting = "none"]

\* The load of "self._engine.evlooprefcnt -= 2" in a thread.
S3Client_decref_load(st, key) ==
  [st EXCEPT !.u[key].reg = st.refcnt, !.u[key].tpc = "dec_store"]

\* Its store.
S3Client_decref_store(st, key) ==
  [st EXCEPT !.refcnt = st.u[key].reg - 2, !.u[key].tpc = "done"]

\* S3Client._close (chalicelib) up to its call of worker._check_fini.
S3Client_close_begin(st, key) ==
  LET s1 == [st EXCEPT !.u[key].state = "closed",
                       !.u[key].out_reg = FALSE, !.u[key].err_reg = FALSE,
                       !.u[key].closes = @ + 1,
                       !.u[key].cabort = FALSE,
                       !.u[key].ctimeout = FALSE,
                       !.u[key].tpc = "cf_load"]
  IN  ExecClient_on_nodeset_close(s1, key, 0)

\* ExecWorker._check_fini: the load of "self._close_count += 1".
ExecWorker_check_fini_load(st, key) ==
  [st EXCEPT !.u[key].reg = st.close_count, !.u[key].tpc = "cf_store"]

\* Its store.
ExecWorker_check_fini_store(st, key) ==
  [st EXCEPT !.close_count = st.u[key].reg + 1, !.u[key].tpc = "cf_test"]

\* The test that follows, and ev_close.
ExecWorker_check_fini_test(st, key) ==
  LET s1 == [st EXCEPT !.u[key].tpc = "done"]
  IN  IF s1.close_count >= Len(s1.clients)
      THEN [s1 EXCEPT !.ev_close = @ + 1]
      ELSE s1

\* ---- actions

\* What the reactor does happens between two of its steps inside _start
\* only for other threads.
ReactorFree == s3.starting = "none"

RaceStartLoad ==
  /\ s3.built = "yes" /\ s3.rev = "lib" /\ ReactorFree
  /\ \E i \in 1..Len(s3.clients) :
       /\ s3.u[s3.clients[i]].state = "pending"
       /\ s3' = S3Client_start_load(s3, s3.clients[i])
  /\ S3Unchanged

RaceStartStore ==
  /\ s3.starting # "none"
  /\ s3' = S3Client_start_store(s3, s3.starting)
  /\ S3Unchanged

\* chalicelib's _start touches no shared counter.
RaceStart == s3.rev = "chalice" /\ S3Start

RaceDecLoad ==
  /\ \E k \in S3Keys :
       /\ s3.u[k].tpc = "closedw"
       /\ s3' = S3Client_decref_load(s3, k)
  /\ S3Unchanged

RaceDecStore ==
  /\ \E k \in S3Keys :
       /\ s3.u[k].tpc = "dec_store"
       /\ s3' = S3Client_decref_store(s3, k)
  /\ S3Unchanged

\* The thread reaches _kill_client (chalicelib): it returns under the App
\* flag, else it spins until the client is registered and removes it,
\* which runs _close on this thread.
RaceKill ==
  /\ \E k \in S3Keys :
       /\ s3.u[k].tpc = "kill"
       /\ s3.app \/ s3.u[k].state = "started"
       /\ s3' = IF s3.app
                THEN S3Client_kill_client(s3, k)
                ELSE S3Client_close_begin(s3, k)
  /\ S3Unchanged

RaceFiniLoad ==
  /\ \E k \in S3Keys :
       /\ s3.u[k].tpc = "cf_load"
       /\ s3' = ExecWorker_check_fini_load(s3, k)
  /\ S3Unchanged

RaceFiniStore ==
  /\ \E k \in S3Keys :
       /\ s3.u[k].tpc = "cf_store"
       /\ s3' = ExecWorker_check_fini_store(s3, k)
  /\ S3Unchanged

RaceFiniTest ==
  /\ \E k \in S3Keys :
       /\ s3.u[k].tpc = "cf_test"
       /\ s3' = ExecWorker_check_fini_test(s3, k)
  /\ S3Unchanged

RaceEngineRead == ReactorFree /\ S3EngineRead

RaceEngineEof == ReactorFree /\ S3EngineEof

RaceNext ==
  \/ S3Dispatch
  \/ RaceStartLoad
  \/ RaceStartStore
  \/ RaceStart
  \/ S3ThreadPlaceholder
  \/ S3ThreadGrab
  \/ S3ThreadClosePipes
  \/ RaceDecLoad
  \/ RaceDecStore
  \/ RaceKill
  \/ RaceFiniLoad
  \/ RaceFiniStore
  \/ RaceFiniTest
  \/ RaceEngineRead
  \/ RaceEngineEof

SpecRace == InitFetch /\ [][RaceNext]_vars

\* ------------------------------------------ claims on the threads' steps

\* Every thread of the cohort has run to its end and the reactor is not
\* inside a _start.
RaceThreadsDone ==
  /\ s3.built = "yes" /\ ReactorFree
  /\ \A k \in S3Units : s3.u[k].state # "pending" /\ s3.u[k].tpc = "done"

RaceClosedUnits == {k \in S3Units : s3.u[k].state = "closed"}

\* C14: when units close on several transport threads, close_count counts
\* every closed unit once (none lost, none twice), and ev_close fires
\* exactly once, when the last unit has closed: never before, never twice,
\* and it has fired once all the closing threads are through.
C14_ConcurrentCloseAccounting ==
  (s3.rev = "chalice" /\ s3.built = "yes") =>
     /\ s3.close_count <= Cardinality(RaceClosedUnits)
     /\ s3.ev_close <= 1
     /\ s3.ev_close = 1 => RaceClosedUnits = S3Units
     /\ (RaceThreadsDone /\ RaceClosedUnits = S3Units) =>
          /\ s3.close_count = Len(s3.clients)
          /\ s3.ev_close = 1

\* A unit's bridging channel is open: the write end of one of its pipes.
RaceChannelOpen(k) == s3.u[k].out_w \/ s3.u[k].err_w

\* C15: evlooprefcnt is back at its value before the dispatch (0) once every
\* unit of the cohort has closed its channels and its thread has ended, and
\* it is above that value while a channel of some unit is open.
C15_RefcntTracksChannels ==
  (s3.rev = "lib" /\ s3.built = "yes") =>
     /\ (RaceThreadsDone /\ \A k \in S3Units : ~RaceChannelOpen(k)) =>
          s3.refcnt = 0
     /\ (\E k \in S3Units : RaceChannelOpen(k)) => s3.refcnt > 0


\* ------------------------------------------------ HTTP layer (clush-api/app.py)

\* Largest number of devices a request names within the limit, and of
\* messages the workers record while get_output collects.
NumDevices == 2

MaxMsgs == 3

\* MAX_DEVICES of the environment.
MAX_DEVICES == NumDevices

DevName == <<"d1", "d2", "d3", "d4">>
DevSet(n) == {DevName[i] : i \in 1..n}
DevKeys == DevSet(NumDevices)

\* What a message of a device's tree decodes to: text (or a JSON object),
\* a JSON number, or the publish confirmation "... requestID x published
\* ...".  "" is no message.
OutKinds == {"txt", "num", "confirm"}
ErrKinds == {"txt"}

\* An entry of results_dict.
NoResult == [has |-> FALSE, output |-> "", error |-> "", requestId |-> FALSE]

\* A response of an endpoint not yet made.
NoResponse == [status |-> 0, message |-> "", results |-> {}, error |-> FALSE]

\* The state of one request: the endpoint, where get_output stands, the
\* task's message trees, and what was returned and answered.
AppIdle ==
  [ kind           |-> "app",
    endpoint       |-> "none",
    pc             |-> "idle",     \* idle, top, err, ret, done
    devices        |-> {},         \* task.nodes
    stdout         |-> [d \in DevKeys |-> ""],  \* task._msgtrees["stdout"]
    stderr         |-> [d \in DevKeys |-> ""],  \* task._msgtrees["stderr"]
    results_dict   |-> [d \in DevKeys |-> NoResult],
    response_count |-> 0,
    timeup         |-> FALSE,      \* time.time() >= max_time + start_time
    aborted        |-> FALSE,      \* task.abort() was called
    ret            |-> "none",     \* none, dict, exc: what get_output returned
    msgs           |-> 0,
    resp           |-> NoResponse ]

\* RequestResponse + Response.
AppResponse(status, message, results, error) ==
  [status |-> status, message |-> message, results |-> results,
   error |-> error]

MSG_NORESULTS == "No results found"

\* MsgTree.add on a key: a line joins the lines the key already holds, and
\* several lines decode as text.
MsgTree_add(tree, d, m) ==
  [tree EXCEPT ![d] = IF @ = "" THEN m ELSE "txt"]

\* get_output, the block under the lock on the stdout tree.  A JSON number
\* makes '"requestID" in stringMessage' raise, and get_output returns the
\* exception.
get_output_stdout(st) ==
  LET keys == {d \in DevKeys : st.stdout[d] # ""}
  IN  IF \E d \in keys : st.stdout[d] = "num"
      THEN [st EXCEPT !.ret = "exc", !.pc = "ret"]
      ELSE LET res == [d \in DevKeys |->
                        IF d \in keys
                        THEN [has       |-> TRUE,
                              output    |-> st.stdout[d],
                              error     |-> "",
                              requestId |-> st.results_dict[d].requestId
                                            \/ st.stdout[d] = "confirm"]
                        ELSE st.results_dict[d]]
           IN  [st EXCEPT !.results_dict = res,
                          !.response_count = @ + Cardinality(keys),
                          !.stdout = [d \in DevKeys |->
                                        IF res[d].has THEN "" ELSE st.stdout[d]],
                          !.pc = "err"]

\* get_output, the block under the lock on the stderr tree.
get_output_stderr(st) ==
  LET keys == {d \in DevKeys : st.stderr[d] # ""}
      res == [d \in DevKeys |->
               IF d \in keys
               THEN [has       |-> TRUE,
                     output    |-> "",
                     error     |-> st.stderr[d],
                     requestId |-> st.results_dict[d].requestId]
               ELSE st.results_dict[d]]
  IN  [st EXCEPT !.results_dict = res,
                 !.response_count = @ + Cardinality(keys),
                 !.stderr = [d \in DevKeys |->
                               IF res[d].has THEN "" ELSE st.stderr[d]],
                 !.pc = "top"]

\* The condition of get_output's while loop.
get_output_continue(st) ==
  /\ st.response_count < Cardinality(st.devices) \/ st.devices = {}
  /\ ~st.timeup

\* get_output past its loop: task.abort() and the map is returned.
get_output_return(st) ==
  [st EXCEPT !.aborted = TRUE, !.ret = "dict", !.pc = "ret"]

AppResults(st) == {d \in DevKeys : st.results_dict[d].has}

publish_no_results(st) ==
  IF st.ret = "exc"
  THEN AppResponse(400, "Error", {}, TRUE)
  ELSE AppResponse(200, "OK", AppResults(st), FALSE)

\* publish, from the return of get_output.
publish(st) ==
  IF st.ret = "exc"
  THEN AppResponse(400, "Error", {}, TRUE)
  ELSE IF AppResults(st) = {}
       THEN AppResponse(200, MSG_NORESULTS, {}, FALSE)
       ELSE AppResponse(200, "OK", AppResults(st), FALSE)

\* retrieve_results, from the return of get_output: len() is taken of what
\* was returned before its type is tested, and len(exception) raises.
retrieve_results(st) ==
  IF st.ret = "exc"
  THEN AppResponse(500, "TypeError", {}, TRUE)
  ELSE IF AppResults(st) = {}
       THEN AppResponse(200, MSG_NORESULTS, {}, FALSE)
       ELSE AppResponse(200, "OK", AppResults(st), FALSE)

\* publish up to run_command: the answers it gives before any dispatch.
publish_validate(st, orgs, creds, helium_ok, n) ==
  IF orgs /\ ~creds
  THEN [st EXCEPT !.pc = "done", !.resp = AppResponse(400, "Error", {}, TRUE)]
  ELSE IF orgs /\ ~helium_ok
  THEN [st EXCEPT !.pc = "done", !.resp = AppResponse(400, "Error", {}, TRUE)]
  ELSE IF n > MAX_DEVICES
  THEN [st EXCEPT !.pc = "done", !.resp = AppResponse(400, "Error", {}, TRUE)]
  ELSE IF n = 0
  THEN [st EXCEPT !.pc = "done", !.resp = AppResponse(418, "Error", {}, TRUE)]
  ELSE [st EXCEPT !.pc = "top", !.devices = DevSet(n)]

\* retrieve_results up to fetch_output_from_s3; with no device named the
\* worker lists those that have replied.
retrieve_results_validate(st, n, listed) ==
  IF n > MAX_DEVICES
  THEN [st EXCEPT !.pc = "done", !.resp = AppResponse(400, "Error", {}, TRUE)]
  ELSE [st EXCEPT !.pc = "top",
                  !.devices = IF n > 0 THEN DevSet(n) ELSE DevSet(listed)]

\* ---- actions

AppUnchanged == UNCHANGED <<rsh, s3, mq>>

AppPublish ==
  /\ cli.pc = "idle"
  /\ \E orgs \in BOOLEAN, creds \in BOOLEAN, helium_ok \in BOOLEAN,
        n \in 0..(MAX_DEVICES + 1) :
       cli' = [publish_validate(cli, orgs, creds, helium_ok, n)
                 EXCEPT !.endpoint = "publish"]
  /\ AppUnchanged

AppRetrieve ==
  /\ cli.pc = "idle"
  /\ \E n \in 0..(MAX_DEVICES + 1), listed \in 0..NumDevices :
       /\ n > 0 => listed = 0
       /\ cli' = [retrieve_results_validate(cli, n, listed)
                    EXCEPT !.endpoint = "results"]
  /\ AppUnchanged

\* A worker of the task records a message of a device (of any the task
\* addresses) in one of the trees.
AppMessage ==
  /\ cli.pc \in {"top", "err"} /\ cli.msgs < MaxMsgs
  /\ \E d \in cli.devices :
       \/ \E m \in OutKinds :
            cli' = [cli EXCEPT !.stdout = MsgTree_add(@, d, m),
                               !.msgs = @ + 1]
       \/ \E m \in ErrKinds :
            cli' = [cli EXCEPT !.stderr = MsgTree_add(@, d, m),
                               !.msgs = @ + 1]
  /\ AppUnchanged

\* The time limit of the request passes.
AppTimeUp ==
  /\ cli.pc \in {"top", "err"} /\ ~cli.timeup
  /\ cli' = [cli EXCEPT !.timeup = TRUE]
  /\ AppUnchanged

AppCollectStdout ==
  /\ cli.pc = "top" /\ get_output_continue(cli)
  /\ cli' = get_output_stdout(cli)
  /\ AppUnchanged

AppCollectStderr ==
  /\ cli.pc = "err"
  /\ cli' = get_output_stderr(cli)
  /\ AppUnchanged

AppReturn ==
  /\ cli.pc = "top" /\ ~get_output_continue(cli)
  /\ cli' = get_output_return(cli)
  /\ AppUnchanged

AppRespond ==
  /\ cli.pc = "ret"
  /\ cli' = [cli EXCEPT !.pc = "done",
                        !.resp = IF cli.endpoint = "publish"
                                 THEN publish(cli)
                                 ELSE retrieve_results(cli)]
  /\ AppUnchanged

AppNext ==
  \/ AppPublish
  \/ AppRetrieve
  \/ AppMessage
  \/ AppTimeUp
  \/ AppCollectStdout
  \/ AppCollectStderr
  \/ AppReturn
  \/ AppRespond

InitApp ==
  /\ cli = AppIdle
  /\ rsh = RshIdle
  /\ s3 = S3Idle("lib")
  /\ mq = MqIdle

SpecApp == InitApp /\ [][AppNext]_vars

\* ------------------------------------------------ claims on the HTTP layer

\* C22: a publish or results request whose collection ended with an empty
\* result map is answered with status 200, the "No results found" message,
\* an empty result set and no error.
C22_NoResultsIsSuccess ==
  (cli.kind = "app" /\ cli.pc = "done" /\ cli.ret = "dict"
     /\ AppResults(cli) = {}) =>
       cli.resp = AppResponse(200, MSG_NORESULTS, {}, FALSE)

\* C22 witness: both kinds of request can end so (here a results request
\* whose time limit passed with nothing collected).
C22_Witness ==
  /\ cli.kind = "app" /\ cli.pc = "done" /\ cli.endpoint = "results"
  /\ cli.ret = "dict" /\ AppResults(cli) = {} /\ cli.timeup
  /\ cli.resp.status = 200


\* ------------------------------- claims on the units' channels and threads

\* 1 for an open or registered end, 0 otherwise.
B2N(b) == IF b THEN 1 ELSE 0

\* The channels a unit has opened (the write ends it holds) and those it
\* has registered with the engine.
ChannelsOpened(u) == B2N(u.out_w) + B2N(u.err_w)
ChannelsRegistered(u) == B2N(u.out_reg) + B2N(u.err_reg)

\* A step starts unit k of the fetch cohort (lib), of the publish cohort.
S3Starts(k) ==
  s3.rev = "lib" /\ s3.u[k].state = "pending" /\ s3'.u[k].state = "started"

MqStarts(k) == mq.u[k].state = "pending" /\ mq'.u[k].state = "started"

\* C23: the start of a fetch or publish unit opens two channels and takes
\* two references when the cohort captures stderr, one channel and one
\* reference otherwise; the references taken are as many as the channels
\* opened and as the channels registered.
C23_RefsMatchChannels ==
  [][/\ \A k \in S3Keys : S3Starts(k) =>
          /\ ChannelsOpened(s3'.u[k]) = (IF s3.stderr THEN 2 ELSE 1)
          /\ s3'.refcnt - s3.refcnt = ChannelsOpened(s3'.u[k])
          /\ s3'.refcnt - s3.refcnt = ChannelsRegistered(s3'.u[k])
     /\ \A k \in Acus : MqStarts(k) =>
          /\ ChannelsOpened(mq'.u[k]) = (IF mq.stderr THEN 2 ELSE 1)
          /\ mq'.refcnt - mq.refcnt = ChannelsOpened(mq'.u[k])
          /\ mq'.refcnt - mq.refcnt = ChannelsRegistered(mq'.u[k])]_vars

\* One cohort is dispatched, a fetch cohort (lib) or a publish cohort, and
\* runs to its end as under SpecFetch or SpecPub; the task is not aborted.
FetchOnly == mq.built = "no" /\ s3.rev = "lib"
PubOnly == s3.built = "no"

\* The thread of a client runs _grab_response; the object found, if any,
\* holds one line.
BridgeThreadGrab ==
  /\ \E k \in S3Keys, has_out \in BOOLEAN, has_err \in BOOLEAN :
       /\ s3.u[k].tpc = "run" /\ s3.u[k].target = "_grab_response"
       /\ s3' = S3Client_grab_response(s3, k, has_out, has_err, <<"a">>)
  /\ S3Unchanged

BridgeNext ==
  \/ FetchOnly /\ S3Dispatch
  \/ FetchOnly /\ S3Start
  \/ FetchOnly /\ S3ThreadPlaceholder
  \/ FetchOnly /\ BridgeThreadGrab
  \/ FetchOnly /\ S3ThreadClosePipes
  \/ FetchOnly /\ S3ThreadDecref
  \/ FetchOnly /\ S3EngineRead
  \/ FetchOnly /\ S3EngineEof
  \/ PubOnly /\ MqDispatch
  \/ PubOnly /\ MqStart
  \/ PubOnly /\ MqThreadError
  \/ PubOnly /\ MqThreadSend
  \/ PubOnly /\ MqThreadClosePipes
  \/ PubOnly /\ MqThreadDecref
  \/ PubOnly /\ MqEngineRead
  \/ PubOnly /\ MqEngineEof

SpecBridge == InitRsh /\ [][BridgeNext]_vars

\* The positions of a unit's thread, in order.
ThreadPos(pc) ==
  CASE pc = "none" -> 0 [] pc = "run" -> 1 [] pc = "wrote" -> 2
    [] pc = "closedw" -> 3 [] pc = "done" -> 4 [] OTHER -> 5

\* What a step does to one unit (u before, v after) and to the count (r
\* before, r2 after) is in the order open, register, increment, blocking
\* operation and write on the thread, close, decrement.
UnitStepOrdered(u, v, r, r2) ==
  /\ ThreadPos(v.tpc) \in {ThreadPos(u.tpc), ThreadPos(u.tpc) + 1}
  /\ (u.state = "pending" /\ v.state = "started") =>
       /\ v.out_w /\ v.err_w /\ v.out_reg
       /\ r2 = r + 2
       /\ u.tpc = "none" /\ v.tpc = "run"
       /\ v.out_buf = << >> /\ v.err_buf = << >>
  /\ (u.tpc = "run" /\ v.tpc = "wrote") =>
       /\ u.state = "started"
       /\ v.out_w /\ v.err_w
       /\ Len(v.out_buf) + Len(v.err_buf) > Len(u.out_buf) + Len(u.err_buf)
       /\ r2 = r
  /\ (u.tpc = "wrote" /\ v.tpc = "closedw") =>
       /\ ~v.out_w /\ ~v.err_w
       /\ r2 = r
  /\ (u.tpc = "closedw" /\ v.tpc = "done") =>
       /\ ~u.out_w /\ ~u.err_w
       /\ r2 = r - 2
  /\ v.tpc = u.tpc => (v.out_w = u.out_w /\ v.err_w = u.err_w)

\* C24: every step of a fetch or publish unit keeps the order open,
\* register, increment, blocking operation on the thread, write, close,
\* decrement; the count changes only at a start (+2) and at the end of a
\* thread (-2), which every thread reaches once, with both write ends
\* closed.
C24_StepOrder ==
  [][/\ \A k \in S3Keys : UnitStepOrdered(s3.u[k], s3'.u[k], s3.refcnt, s3'.refcnt)
     /\ \A k \in Acus : UnitStepOrdered(mq.u[k], mq'.u[k], mq.refcnt, mq'.refcnt)
     /\ s3'.refcnt # s3.refcnt =>
          \E k \in S3Keys : s3'.u[k].tpc # s3.u[k].tpc
     /\ mq'.refcnt # mq.refcnt =>
          \E k \in Acus : mq'.u[k].tpc # mq.u[k].tpc]_vars

\* C24 witness: a fetch cohort of two units, one that found its output and
\* one that found nothing, both threads at their end and the count back at
\* its value before the dispatch.
C24_Witness ==
  /\ s3.built = "yes" /\ Len(s3.clients) = 2
  /\ \A k \in S3Units : s3.u[k].tpc = "done"
  /\ \E k \in S3Units : s3.u[k].has_out
  /\ \E k \in S3Units : ~s3.u[k].has_out /\ ~s3.u[k].has_err
  /\ s3.refcnt = 0

\* ---- units closed before they were started

\* The engine closes a client of the cohort that it has not started (the
\* task is aborted while the client waits for its turn).
S3ClosePending ==
  /\ FetchOnly
  /\ \E k \in S3Units, timeout \in BOOLEAN :
       /\ s3.u[k].state = "pending" /\ s3.u[k].craised = ""
       /\ s3' = S3Client_close(s3, k, TRUE, timeout)
  /\ S3Unchanged

MqClosePending ==
  /\ PubOnly
  /\ \E k \in MqUnits, timeout \in BOOLEAN :
       /\ mq.u[k].state = "pending" /\ mq.u[k].craised = ""
       /\ mq' = MqttClient_close(mq, k, TRUE, timeout)
  /\ MqUnchanged

UnstartedNext ==
  \/ FetchOnly /\ S3Dispatch
  \/ FetchOnly /\ S3Start
  \/ FetchOnly /\ S3ThreadPlaceholder
  \/ FetchOnly /\ BridgeThreadGrab
  \/ FetchOnly /\ S3ThreadClosePipes
  \/ FetchOnly /\ S3ThreadDecref
  \/ S3ClosePending
  \/ PubOnly /\ MqDispatch
  \/ PubOnly /\ MqStart
  \/ PubOnly /\ MqThreadError
  \/ PubOnly /\ MqThreadSend
  \/ PubOnly /\ MqThreadClosePipes
  \/ PubOnly /\ MqThreadDecref
  \/ MqClosePending

SpecUnstarted == InitRsh /\ [][UnstartedNext]_vars

\* The closes the cohort has accounted for are those of its closed units.
S3ClosesAccounted ==
  s3.close_count = Cardinality({k \in S3Units : s3.u[k].state = "closed"})

MqClosesAccounted ==
  mq.close_count = Cardinality({k \in MqUnits : mq.u[k].state = "closed"})

\* C25: the close of a fetch or publish unit that was never started does
\* not raise, and it is accounted for once: the unit is closed and the
\* cohort's count of closes is the number of its closed units.
C25_CloseUnstarted ==
  /\ \A k \in S3Units :
       /\ s3.u[k].craised = ""
       /\ (s3.u[k].state = "closed" /\ s3.u[k].starts = 0) => s3.u[k].closes = 1
  /\ \A k \in MqUnits :
       /\ mq.u[k].craised = ""
       /\ (mq.u[k].state = "closed" /\ mq.u[k].starts = 0) => mq.u[k].closes = 1
  /\ S3ClosesAccounted
  /\ MqClosesAccounted

\* C26: a unit of a fetch or publish cohort announces its start once per
\* dispatch: never more than once, and once when it has been started.
C26_StartAnnouncedOnce ==
  /\ \A k \in S3Units :
       /\ s3.u[k].starts <= 1
       /\ s3.u[k].state \in {"started", "closed"} /\ s3.u[k].tpc # "none"
            => s3.u[k].starts = 1
  /\ \A k \in MqUnits :
       /\ mq.u[k].starts <= 1
       /\ mq.u[k].state \in {"started", "closed"} /\ mq.u[k].tpc # "none"
            => mq.u[k].starts = 1

\* The identifier of the cohort that the caller's argument calls for.
MqExpectedId == IF mq.rid_arg = << >> THEN "uuid" ELSE mq.rid_arg[1]

\* C27: every payload published by a unit of the cohort carries the one
\* identifier of the cohort, the caller's when given and the generated one
\* otherwise; a unit with a resolved topic publishes once, and the
\* confirmation it writes after a successful publish carries the
\* identifier of the payload it published.
C27_OneCorrelationId ==
  mq.built = "yes" =>
    /\ mq.requestId = MqExpectedId
    /\ \A k \in MqUnits :
         /\ \A i \in 1..Len(mq.u[k].publishes) :
              mq.u[k].publishes[i][2] = mq.requestId
         /\ Len(mq.u[k].publishes) <= 1
         /\ (~MqSentinel(k) /\ mq.u[k].tpc \in {"wrote", "closedw", "done"})
              => Len(mq.u[k].publishes) = 1
         /\ mq.u[k].wrote_out # << >> =>
              /\ ~mq.u[k].raised
              /\ mq.u[k].wrote_out = <<MsgPublished(mq.u[k].publishes[1][2])>>

\* C27 witness: two units of a cohort with the caller's identifier have
\* both published and confirmed.
C27_Witness ==
  /\ mq.built = "yes" /\ mq.rid_arg = <<"rid">> /\ Len(mq.clients) = 2
  /\ \A k \in MqUnits :
       /\ mq.u[k].tpc = "done"
       /\ mq.u[k].wrote_out = <<MsgPublished("rid")>>

\* ---------------------------------------------------------------------
\* Claims on the queue of the Live-Gathered handler.

\* The lines the Display has rendered for a node, in the order rendered:
\* those of the gathered groups the node belongs to.
RECURSIVE LiveRenderedIn(_, _)
LiveRenderedIn(d, n) ==
  IF d = << >> THEN << >>
  ELSE (IF Head(d)[1] = "gather" /\ n \in Head(d)[2] THEN Head(d)[3] ELSE << >>)
         \o LiveRenderedIn(Tail(d), n)

LiveRendered(n) == LiveRenderedIn(cli.display, n)

\* The lines of a node that wait in the queue, from the head on.
RECURSIVE LiveQueuedIn(_, _)
LiveQueuedIn(q, n) ==
  IF q = << >> THEN << >>
  ELSE MsgTree_message(Head(q), n) \o LiveQueuedIn(Tail(q), n)

LiveQueued(n) == LiveQueuedIn(cli.mtreeq, n)

\* The summary of return codes and timeouts comes after every group.
LiveSummaryLast ==
  \A i, j \in DOMAIN cli.display :
    i < j /\ cli.display[i][1] \in {"exit", "timeout"}
      => cli.display[j][1] # "gather"

\* C28 as stated: under the Live-Gathered handler, the stdout lines a
\* target has sent are, in order, the ones rendered for it followed by the
\* ones still queued for it; after the terminal callback all of them are
\* rendered, none twice, and the summary comes last.
C28_EachLineRenderedOnce ==
  cli.kind = "out" /\ cli.handler = "live" /\ cli.built = "yes" =>
    /\ ~cli.closed =>
         \A n \in cli.wnodes : LiveRendered(n) \o LiveQueued(n) = cli.buf[n]
    /\ cli.closed =>
         /\ \A n \in cli.wnodes : LiveRendered(n) = cli.buf[n]
         /\ LiveSummaryLast

\* The same for a handler that was given the targets of its worker.
LiveTargetedLinesRenderedOnce ==
  cli.kind = "out" /\ cli.ns = cli.wnodes => C28_EachLineRenderedOnce

\* The positions of the Display that hold a gathered group.
LiveGroups == {d \in DOMAIN cli.display : cli.display[d][1] = "gather"}

\* The line index a group has for one of its targets: the number of groups
\* rendered for that target up to this one.
GroupIndex(d, n) ==
  Cardinality({e \in LiveGroups : e <= d /\ n \in cli.display[e][2]})

\* C29: under the Live-Gathered handler the entry at position k of the
\* queue holds only lines of index offload + k, one per target, each the
\* line its target sent at that index; a rendered group holds the same line
\* index for all its targets, with the payload they sent at that index, and
\* the line indices of the groups never decrease along the Display (the
\* groups of one index differ by payload).
C29_IndexOrder ==
  cli.kind = "out" /\ cli.handler = "live" /\ cli.built = "yes" =>
    /\ \A k \in DOMAIN cli.mtreeq : \A p \in cli.mtreeq[k] :
         /\ p[3] = cli.offload + k
         /\ p[3] <= Len(cli.buf[p[1]])
         /\ p[2] = cli.buf[p[1]][p[3]]
    /\ \A d \in LiveGroups : \A n, m \in cli.display[d][2] :
         /\ GroupIndex(d, n) = GroupIndex(d, m)
         /\ GroupIndex(d, n) <= Len(cli.buf[n])
         /\ cli.display[d][3] = <<cli.buf[n][GroupIndex(d, n)]>>
    /\ \A d, e \in LiveGroups : \A n \in cli.display[d][2] :
         \A m \in cli.display[e][2] :
           d < e => GroupIndex(d, n) <= GroupIndex(e, m)

\* Two targets were rendered together at line index 1 while a line of
\* index 2 was queued, and that line was rendered after them.
C29_Witness ==
  /\ cli.kind = "out" /\ cli.handler = "live" /\ cli.closed
  /\ \E d, e \in LiveGroups, n \in cli.wnodes :
       /\ d < e
       /\ Cardinality(cli.display[d][2]) >= 2
       /\ n \in cli.display[d][2] /\ n \in cli.display[e][2]
       /\ GroupIndex(e, n) = 2

\* The line indices rendered so far.
LiveIndicesRendered ==
  UNION {{GroupIndex(d, n) : n \in cli.display[d][2]} : d \in LiveGroups}

\* The targets rendered at a line index.
LiveRenderedAt(i) ==
  UNION {cli.display[d][2] :
           d \in {e \in LiveGroups :
                    \E n \in cli.display[e][2] : GroupIndex(e, n) = i}}

\* C30 as stated: before the terminal callback of the Live-Gathered
\* handler, every line index rendered so far was rendered with a
\* contribution from every target of the active set, and offload is the
\* number of line indices rendered so far.  The terminal callback leaves
\* offload as it is and renders what is queued: after it, offload counts
\* the line indices rendered before it, and is at most their number.
C30_OffloadCountsRendered ==
  cli.kind = "out" /\ cli.handler = "live" /\ cli.built = "yes" =>
    /\ ~cli.closed =>
         /\ \A i \in LiveIndicesRendered : cli.lnodes \subseteq LiveRenderedAt(i)
         /\ cli.offload = Cardinality(LiveIndicesRendered)
    /\ cli.closed => cli.offload <= Cardinality(LiveIndicesRendered)

\* The rendered line indices have a contribution from every active target.
LivePopsOnlyComplete ==
  cli.kind = "out" /\ cli.handler = "live" /\ cli.built = "yes" /\ ~cli.closed =>
    \A i \in LiveIndicesRendered : cli.lnodes \subseteq LiveRenderedAt(i)

\* ---------------------------------------------------------------------
\* Claims on the report of the Gathered handler.

\* The first target of the i-th rendered group, as its position in natural
\* order, and the return code of the targets of that group.
GroupMinIdx(i) == NodeIdx(NodeMin(OutGathered[i][2]))

GroupRc(i) == cli.rc[NodeMin(OutGathered[i][2])]

\* C31 as stated: once the Gathered handler has run its terminal callback,
\* the rendered groups are in ascending order of their first target in
\* natural order, whatever the return codes.
C31_GroupsByMinKey ==
  cli.kind = "out" /\ cli.handler = "gather" /\ cli.closed =>
    \A i, j \in DOMAIN OutGathered :
      i < j => GroupMinIdx(i) < GroupMinIdx(j)

\* C31 as amended: the rendered groups are in ascending order of return
\* code, and the groups of one return code in ascending order of their
\* first target in natural order.
C31_GroupsByRcThenMinKey ==
  cli.kind = "out" /\ cli.handler = "gather" /\ cli.closed =>
    \A i, j \in DOMAIN OutGathered :
      i < j =>
        \/ GroupRc(i) < GroupRc(j)
        \/ GroupRc(i) = GroupRc(j) /\ GroupMinIdx(i) < GroupMinIdx(j)

\* Two groups of one return code were rendered in the order of their first
\* targets, after or before a group of another return code.
C31_Witness ==
  /\ cli.kind = "out" /\ cli.handler = "gather" /\ cli.closed
  /\ \E i, j, k \in DOMAIN OutGathered :
       /\ i < j /\ GroupRc(i) = GroupRc(j)
       /\ GroupRc(k) # GroupRc(i)

\* The positions of the Display where the gathered report names a target:
\* in a rendered group or in a residual line.
ReportEntriesOf(n) ==
  {d \in DOMAIN cli.display :
     cli.display[d][1] \in {"gather", "finalize"} /\ n \in cli.display[d][2]}

\* C32: once the Gathered handler has run its terminal callback, every
\* target with a return code is named at one place of the gathered report:
\* in the group of its buffer if it has output, in a residual line if it has
\* none; the targets of a group or of a residual line have one return code.
C32_AccountedOnce ==
  cli.kind = "out" /\ cli.handler = "gather" /\ cli.closed =>
    \A n \in cli.wnodes : cli.rc[n] # RC_UNSET =>
      /\ Cardinality(ReportEntriesOf(n)) = 1
      /\ \A d \in ReportEntriesOf(n) :
           /\ cli.display[d][1] = "gather" =>
                cli.buf[n] # << >> /\ cli.display[d][3] = cli.buf[n]
           /\ cli.display[d][1] = "finalize" => cli.buf[n] = << >>
           /\ \A m \in cli.display[d][2] : cli.rc[m] = cli.rc[n]

\* A target with output was rendered in a group and a target of the same
\* return code without output was listed in the residual line.
C32_Witness ==
  /\ cli.kind = "out" /\ cli.handler = "gather" /\ cli.closed
  /\ \E n, m \in cli.wnodes :
       /\ cli.rc[n] # RC_UNSET /\ cli.rc[m] = cli.rc[n]
       /\ cli.buf[n] # << >> /\ cli.buf[m] = << >>
       /\ \E d, e \in DOMAIN cli.display :
            /\ d < e
            /\ cli.display[d][1] = "gather" /\ n \in cli.display[d][2]
            /\ cli.display[e][1] = "finalize" /\ m \in cli.display[e][2]

\* ---------------------------------------------------------------------
\* Claims on the summary of a copy.

\* The targets that timed out in one of the transfers of the copy, and the
\* targets the timeout lines of the Display name.
CopyTimedOut ==
  {n \in CopyTargets :
     \E w \in DOMAIN cli.outcome :
       cli.workers[w] = "closed" /\ cli.outcome[w][n] = TIMEDOUT}

CopyReportedTimedOut ==
  UNION {cli.display[d][2] :
           d \in {e \in DOMAIN cli.display : cli.display[e][1] = "timeout"}}

\* C33 as stated: once every transfer of a copy has had its terminal
\* callback, the summary names every target that timed out in any of the
\* transfers.
C33_AllTimeoutsReported ==
  cli.kind = "copy" /\ cli.built = "yes" /\ cli.callbacks = cli.nsources =>
    CopyReportedTimedOut = CopyTimedOut

\* C34 as stated: once the Gathered or the Sorted handler has run its
\* terminal callback, the buffer of every target that has output has been
\* rendered, whatever the outcome of the target.
C34_OutputRenderedWhateverOutcome ==
  cli.kind = "out" /\ cli.handler \in {"gather", "sorted"} /\ cli.closed =>
    \A n \in cli.wnodes : cli.buf[n] # << >> =>
      \E d \in DOMAIN cli.display :
        /\ cli.display[d][1] = "gather"
        /\ n \in cli.display[d][2]
        /\ cli.display[d][3] = cli.buf[n]

\* ---------------------------------------------------------------------
\* Claims on the placeholder of the fetch cohort.

\* The thread targets that emit the placeholder diagnostic instead of
\* fetching (lib: _log_error_msg; chalicelib: the diagnostic is issued by
\* _start and the thread runs _kill_client).
PlaceholderTargets == {"_log_error_msg", "_kill_client"}

\* C35 as stated: a started fetch unit takes the placeholder path only in a
\* cohort that was dispatched without targets (its keys come from the
\* listing, which found none); a unit of a cohort dispatched with targets
\* fetches.
C35_PlaceholderOnlyWithoutTargets ==
  \A k \in S3Keys :
    s3.built = "yes" /\ s3.u[k].target # "none" =>
      /\ s3.u[k].target \in PlaceholderTargets => s3.listed
      /\ ~s3.listed => s3.u[k].target = "_grab_response"

\* ---------------------------------------------------------------------
\* The task flag USER_running, over every handler variant.

\* Largest number of targets and of Line Events of a command followed for
\* the flag.
NumRunTargets == 2

MaxRunLines == 2

\* A command or a fetch with any combination of the display options, or a
\* copy.
InitRunning ==
  /\ \/ \E gather \in BOOLEAN, line_mode \in BOOLEAN, outdir \in BOOLEAN,
           errdir \in BOOLEAN, stderr \in BOOLEAN :
           cli = OutIdle(gather, line_mode, outdir, errdir, stderr,
                         NumRunTargets, MaxRunLines)
     \/ cli = CopyIdle
  /\ rsh = RshIdle
  /\ s3 = S3Idle("lib")
  /\ mq = MqIdle

RunningNext ==
  \/ cli.kind = "out" /\ OutDispatch
  \/ cli.kind = "out" /\ OutRead
  \/ cli.kind = "out" /\ OutHup
  \/ cli.kind = "out" /\ OutTimeout
  \/ cli.kind = "copy" /\ CopyDispatch
  \/ cli.kind = "copy" /\ CopyWorkerClose

SpecRunning == InitRunning /\ [][RunningNext]_vars

\* The cohort was dispatched and has had its terminal callback: ev_close of
\* the worker of a command or a fetch, or of the last transfer of a copy.
RunDispatched == cli.kind \in {"out", "copy"} /\ cli.built = "yes"

RunTerminal ==
  IF cli.kind = "out" THEN cli.closed ELSE cli.callbacks = cli.nsources

\* C36: USER_running is true from the dispatch of a command, a fetch or a
\* copy until the terminal callback of its handler, and false after it.
C36_RunningUntilTerminal ==
  RunDispatched => (cli.running <=> ~RunTerminal)

\* A copy of two sources has had the terminal callbacks of both transfers
\* and the flag is cleared.
C36_Witness ==
  /\ cli.kind = "copy" /\ cli.built = "yes"
  /\ cli.nsources = 2 /\ cli.callbacks = 2 /\ ~cli.running

\* ---------------------------------------------------------------------
\* Claims on the result map of get_output.

\* C37 as stated: the response counter of get_output never exceeds the
\* number of devices that have an entry in the result map, and when the
\* loop over a device list that is not empty has ended before the time
\* limit, every requested device has an entry.
C37_CountsDevicesOnce ==
  cli.kind = "app" =>
    /\ cli.response_count <= Cardinality(AppResults(cli))
    /\ (cli.ret = "dict" /\ ~cli.timeup /\ cli.devices # {})
         => cli.devices \subseteq AppResults(cli)

\* C38 as stated: no step of get_output empties the output or the error
\* that the result map already holds for a device.
C38_StreamsKept ==
  [][cli.kind = "app" =>
       \A d \in DevKeys :
         /\ cli.results_dict[d].output # "" => cli'.results_dict[d].output # ""
         /\ cli.results_dict[d].error # "" => cli'.results_dict[d].error # ""]_vars

\* C39 as stated: a publish or results request whose collection returned
\* an exception is answered with status 400 and the error, by either
\* endpoint.
C39_CollectionFailureIs400 ==
  (cli.kind = "app" /\ cli.pc = "done" /\ cli.ret = "exc") =>
    cli.resp = AppResponse(400, "Error", {}, TRUE)

\* ---------------------------------------------------------------------
\* Claims on the last Line Event of a Subprocess work unit.

\* Largest number of units of the cohort followed for the last Line Event.
NumFlushNodes == 2

\* What is kept of the run besides the cohort: the units that were closed
\* with flush requested while they held read data without EOL.
FlushIdle == [kind |-> "flush", finals |-> {}]

FlushUnchanged == UNCHANGED <<s3, mq>>

FlushDispatch ==
  /\ rsh.built = "no"
  /\ \E k \in 1..NumFlushNodes, handler \in BOOLEAN :
       rsh' = WorkerRsh_init(rsh, k, TRUE, FALSE, TRUE, handler)
  /\ UNCHANGED cli /\ FlushUnchanged

FlushStart ==
  /\ rsh.built = "yes"
  /\ \E i \in 1..Len(rsh.clients) :
       /\ ~rsh.cl[rsh.clients[i]].started
       /\ rsh' = Rsh_start(rsh, rsh.clients[i])
  /\ UNCHANGED cli /\ FlushUnchanged

FlushRead ==
  /\ \E n \in RshNodes, partial \in BOOLEAN :
       /\ rsh.cl[n].registered /\ rsh.cl[n].alive
       /\ Len(rsh.events) < MaxRshLines
       /\ rsh' = Rsh_handle_read(rsh, n, partial)
  /\ UNCHANGED cli /\ FlushUnchanged

FlushProcExit ==
  /\ \E n \in RshNodes, rc \in RetCodes :
       /\ rsh.cl[n].registered /\ rsh.cl[n].alive
       /\ rsh' = [rsh EXCEPT !.cl[n].alive = FALSE, !.cl[n].prc = rc]
  /\ UNCHANGED cli /\ FlushUnchanged

FlushCloseEof ==
  /\ \E n \in RshNodes :
       /\ rsh.cl[n].registered /\ ~rsh.cl[n].alive
       /\ rsh' = Rsh_close(rsh, n, FALSE, TRUE, FALSE)
       /\ cli' = [cli EXCEPT !.finals =
                               IF rsh.cl[n].rbuf THEN @ \cup {n} ELSE @]
  /\ FlushUnchanged

FlushCloseTimeout ==
  /\ \E n \in RshNodes :
       /\ rsh.cl[n].registered
       /\ rsh' = Rsh_close(rsh, n, TRUE, FALSE, TRUE)
  /\ UNCHANGED cli /\ FlushUnchanged

FlushAbort ==
  /\ rsh.built = "yes"
  /\ ~rsh.aborted
  /\ rsh' = WorkerRsh_abort(rsh)
  /\ UNCHANGED cli /\ FlushUnchanged

FlushNext ==
  \/ FlushDispatch
  \/ FlushStart
  \/ FlushRead
  \/ FlushProcExit
  \/ FlushCloseEof
  \/ FlushCloseTimeout
  \/ FlushAbort

InitFlush ==
  /\ rsh = RshIdle
  /\ s3 = S3Idle("lib")
  /\ mq = MqIdle
  /\ cli = FlushIdle

SpecFlush == InitFlush /\ [][FlushNext]_vars

\* The Line Events delivered for a unit.
FlushEventsOf(st, n) ==
  Cardinality({i \in DOMAIN st.events : st.events[i][1] = n})

\* C40: in a cohort with a handler, the close of a unit with flush
\* requested while it holds unterminated read data delivers one more stdout
\* Line Event for its target; no Line Event is delivered for a target whose
\* return code or timeout has been reported, nor after the terminal
\* notification of the cohort.
C40_FinalLineBeforeOutcome ==
  /\ [](rsh.late = 0 /\ rsh.stale = 0)
  /\ [][\A n \in RshNodes :
          (rsh.eh /\ n \in cli'.finals \ cli.finals) =>
            /\ rsh'.events = Append(rsh.events, <<n, "stdout">>)
            /\ rsh'.cl[n].closes = rsh.cl[n].closes + 1]_vars

\* The unterminated data of a unit was delivered as the cohort's only Line
\* Event, the unit's return code is recorded and the terminal notification
\* has fired.
C40_Witness ==
  /\ rsh.eh /\ rsh.ev_close = 1
  /\ \E n \in cli.finals :
       /\ rsh.cl[n].closes = 1
       /\ rsh.events = << <<n, "stdout">> >>
       /\ \E p \in rsh.retcodes : p[1] = n

====
